---- MODULE Spec2Model ----
(***************************************************************************)
(* State-machine model of the Haskell Code Explorer VSCode extension       *)
(* (vscode-extension/src/extension.ts, hce.ts): the three session caches,  *)
(* the package registry, and the hover / go-to-definition / find-references*)
(* providers with their network fetches.                                   *)
(*                                                                         *)
(* JavaScript runs one task at a time: an action below is one run of the   *)
(* event loop, from a host event or a network completion up to the next    *)
(* `await` on a network promise.                                           *)
(***************************************************************************)
EXTENDS Integers, Sequences, FiniteSets, TLC

VARIABLES
  activated,        \* activate() has run
  cabalFiles,       \* the manifests vscode.workspace.findFiles would find
  pendingLoads,     \* findFiles promises of loadPackagesInfo not yet resolved
  haskellPackages,  \* globalState.haskellPackages
  haskellModules,   \* globalState.haskellModules
  definitionSites,  \* globalState.definitionSites
  references,       \* globalState.references
  moduleFetches,    \* fetchHaskellModule calls awaiting their response
  failedFetches,    \* the URLs whose fetch has failed (history)
  calls,            \* provider calls awaiting a network response
  returned,         \* the provider call that returned last, with its result
  evaluated,        \* a function of the extension applied to inputs, on its own
  issued            \* the go-to-definition and find-references calls the host
                    \* has made, where the specification counts them

vars == <<activated, cabalFiles, pendingLoads, haskellPackages, haskellModules,
          definitionSites, references, moduleFetches, failedFetches, calls,
          returned, evaluated, issued>>

(***************************************************************************)
(* Bounds of the model.                                                    *)
(***************************************************************************)
MaxInflight == 2
MaxModuleFetches == 2
MaxLoads == 1
MaxOverlap == 2
MaxCalls == 3

(***************************************************************************)
(* JavaScript values.  A possibly-undefined value is `undefined` or        *)
(* Some(v); objects and arrays are truthy, undefined and the empty string  *)
(* are falsy.                                                              *)
(***************************************************************************)
undefined == [tag |-> "undefined"]

Some(v) == [tag |-> "some", value |-> v]

Truthy(x) == x # undefined

TruthyString(s) == s # ""

\* a set that would build the map anew around the one entry
MapSetFresh(m, k, v) == [x \in {k} |-> v]

\* Map.prototype.get / has / set on a map held as a function
MapGet(m, k) == IF k \in DOMAIN m THEN Some(m[k]) ELSE undefined

MapHas(m, k) == k \in DOMAIN m

MapSet(m, k, v) == [x \in DOMAIN m \cup {k} |-> IF x = k THEN v ELSE m[x]]

EmptyMap == [x \in {} |-> undefined]

\* Array.prototype.join over string parts
RECURSIVE Join(_, _)
Join(parts, sep) ==
  IF parts = <<>> THEN ""
  ELSE IF Len(parts) = 1 THEN parts[1]
  ELSE parts[1] \o sep \o Join(Tail(parts), sep)

\* a string held as its sequence of characters, as one string
Str(chars) == Join(chars, "")

\* Array.prototype.concat over a sequence of arrays, in index order
RECURSIVE Flatten(_)
Flatten(arrays) ==
  IF arrays = <<>> THEN <<>> ELSE Head(arrays) \o Flatten(Tail(arrays))

(***************************************************************************)
(* Constants of extension.ts.                                              *)
(***************************************************************************)
DEFAULT_HCE_HOST == "http://localhost:8080"

STATIC_URL_PREFIX == "files"

API_URL_PREFIX == "api"

HCE_INDEX_DIRECTORY == ".haskell-code-explorer"

getHceHost == DEFAULT_HCE_HOST

packageIdToString(packageId) == packageId.name \o "-" \o packageId.version

\* an escape that would replace the first dot only
fixUrlDotsFirstOnly(str) ==
  IF str = <<".">> THEN "%20%2E"
  ELSE IF str = <<".", ".">> THEN "%20%2E%2E"
  ELSE Str([i \in 1..Len(str) |->
              IF str[i] = "." /\ \A j \in 1..(i - 1) : str[j] # "."
              THEN "%2E" ELSE str[i]])

\* "." and ".." are special-cased, every other name has its dots escaped
fixUrlDots(str) ==
  IF str = <<".">> THEN "%20%2E"
  ELSE IF str = <<".", ".">> THEN "%20%2E%2E"
  ELSE Str([i \in 1..Len(str) |-> IF str[i] = "." THEN "%2E" ELSE str[i]])

\* unreserved characters stand for themselves; the model's external ids
\* and path segments hold the reserved characters "|" and "/" only
encodeURIComponentChar(c) ==
  IF c = "|" THEN "%7C"
  ELSE IF c = "/" THEN "%2F"
  ELSE IF c = "%" THEN "%25"
  ELSE c

encodeURIComponent(chars) ==
  [i \in 1..Len(chars) |-> encodeURIComponentChar(chars[i])]

(***************************************************************************)
(* Paths, held as their sequences of segments.                             *)
(***************************************************************************)
PathString(segs) == Str([i \in 1..Len(segs) |-> "/" \o segs[i]])

\* path.dirname
dirname(segs) == SubSeq(segs, 1, Len(segs) - 1)

RECURSIVE CommonPrefixLen(_, _)
CommonPrefixLen(a, b) ==
  IF a = <<>> \/ b = <<>> \/ Head(a) # Head(b) THEN 0
  ELSE 1 + CommonPrefixLen(Tail(a), Tail(b))

\* path.relative(from, to): the segments `cd` needs to go from `from` to `to`
relative(from, to) ==
  LET n == CommonPrefixLen(from, to)
  IN  [i \in 1..(Len(from) - n) |-> ".."] \o SubSeq(to, n + 1, Len(to))

\* relativePath.indexOf("../") === -1
HasNoParentStep(rel) == \A i \in 1..(Len(rel) - 1) : rel[i] # ".."

(***************************************************************************)
(* The workspace: documents the host can show, and the manifests that      *)
(* findFiles("**/*.cabal") can return.  A manifest is its uri and the      *)
(* lines of its contents, a line being <<field, value>>.                   *)
(***************************************************************************)
DocM == [scheme |-> "file", languageId |-> "haskell",
         path |-> <<"ws", "pkg", "src", "M.hs">>]

DocOutside == [scheme |-> "file", languageId |-> "haskell",
               path |-> <<"tmp", "X.hs">>]

DocReadme == [scheme |-> "file", languageId |-> "markdown",
              path |-> <<"ws", "pkg", "README.md">>]

Documents == {DocM, DocOutside, DocReadme}

CabalPkg == [scheme |-> "file", path |-> <<"ws", "pkg", "pkg.cabal">>,
             contents |-> << <<"name", "pkg">>, <<"version", "1.0">> >>]

CabalDep == [scheme |-> "file", path |-> <<"ws", "dep", "dep.cabal">>,
             contents |-> << <<"version", "2.0">>, <<"name", "dep">> >>]

CabalBroken == [scheme |-> "file", path |-> <<"ws", "broken", "broken.cabal">>,
                contents |-> << <<"name", "broken">>, <<"license", "MIT">> >>]

WorkspaceSmall == <<CabalPkg, CabalBroken>>

WorkspaceLarge == <<CabalDep, CabalPkg>>

Workspaces == {WorkspaceSmall, WorkspaceLarge}

(***************************************************************************)
(* Package registry.                                                       *)
(***************************************************************************)
\* the last `name:` and the last `version:` line; both are needed
RECURSIVE LastValue(_, _)
LastValue(lines, field) ==
  IF lines = <<>> THEN ""
  ELSE LET last == lines[Len(lines)]
       IN  IF last[1] = field /\ last[2] # "" THEN last[2]
           ELSE LastValue(SubSeq(lines, 1, Len(lines) - 1), field)

getPackageIdFromCabalContents(cabalContents) ==
  LET name == LastValue(cabalContents, "name")
      version == LastValue(cabalContents, "version")
  IN  IF TruthyString(name) /\ TruthyString(version)
      THEN Some([name |-> name, version |-> version])
      ELSE undefined

\* the then-callback of loadPackagesInfo: the registry built from the uris
RECURSIVE PackagesOf(_)
PackagesOf(uris) ==
  IF uris = <<>> THEN <<>>
  ELSE LET x == Head(uris)
           packageId == getPackageIdFromCabalContents(x.contents)
       IN  (IF x.scheme = "file" /\ Truthy(packageId)
            THEN << [packageId |-> packageId.value,
                     packageFolder |-> dirname(x.path)] >>
            ELSE <<>>) \o PackagesOf(Tail(uris))

\* Array.prototype.find: the first package with that identity string
RECURSIVE FindPackage(_, _)
FindPackage(packages, packageIdString) ==
  IF packages = <<>> THEN undefined
  ELSE IF packageIdToString(Head(packages).packageId) = packageIdString
       THEN Some(Head(packages))
       ELSE FindPackage(Tail(packages), packageIdString)

\* a lookup that would guess a folder for a package the registry lacks
packageIdToFolderPathGuessing(packages, packageIdString) ==
  LET packageInfo == FindPackage(packages, packageIdString)
  IN  IF ~Truthy(packageInfo) THEN Some(<<"ws", packageIdString>>)
      ELSE Some(packageInfo.value.packageFolder)

packageIdToFolderPath(packages, packageIdString) ==
  LET packageInfo == FindPackage(packages, packageIdString)
  IN  IF ~Truthy(packageInfo) THEN undefined
      ELSE Some(packageInfo.value.packageFolder)

\* the closest enclosing package folder: the candidates are filtered on
\* "../" and (stably) sorted on the length of the relative path
lookupPackageInfo(packages, document) ==
  LET rel(i) == relative(packages[i].packageFolder, document.path)
      len(i) == Len(Join(rel(i), "/"))
      results == {i \in 1..Len(packages) : HasNoParentStep(rel(i))}
  IN  IF results = {} THEN undefined
      ELSE Some(packages[CHOOSE i \in results :
                  \A j \in results : len(i) < len(j) \/ (len(i) = len(j) /\ i <= j)])

isHaskellFile(document) ==
  document.scheme = "file" /\ document.languageId = "haskell"

(***************************************************************************)
(* URLs of the Haskell Code Explorer server.                               *)
(***************************************************************************)
\* encodeURIComponent(encodeURIComponent(path.relative(folder, path)))
haskellModuleUrl(packageInfo, document) ==
  LET rel == relative(packageInfo.packageFolder, document.path)
      chars == IF rel = <<>> THEN <<>>
               ELSE Tail(Flatten([i \in 1..Len(rel) |-> <<"/", rel[i]>>]))
  IN  getHceHost \o "/" \o STATIC_URL_PREFIX \o "/"
        \o packageIdToString(packageInfo.packageId) \o "/"
        \o HCE_INDEX_DIRECTORY \o "/"
        \o Str(encodeURIComponent(encodeURIComponent(chars))) \o ".json"

\* a URI that would be built for a location of any tag
getDefinitionSiteUriAnyTag(locationInfo) ==
  IF locationInfo.tag # "ApproximateLocation" THEN Some(locationInfo.tag)
  ELSE LET name == IF locationInfo.entity = "Mod"
                   THEN locationInfo.moduleName ELSE locationInfo.name
       IN  Some(packageIdToString(locationInfo.packageId) \o "/"
                  \o locationInfo.componentId \o "/"
                  \o Str(locationInfo.moduleName) \o "/"
                  \o locationInfo.entity \o "/"
                  \o fixUrlDots(name))

\* a URI that would leave the entity out
getDefinitionSiteUriWithoutEntity(locationInfo) ==
  IF locationInfo.tag # "ApproximateLocation" THEN undefined
  ELSE LET name == IF locationInfo.entity = "Mod"
                   THEN locationInfo.moduleName ELSE locationInfo.name
       IN  Some(packageIdToString(locationInfo.packageId) \o "/"
                  \o locationInfo.componentId \o "/"
                  \o Str(locationInfo.moduleName) \o "/"
                  \o fixUrlDots(name))

getDefinitionSiteUri(locationInfo) ==
  IF locationInfo.tag # "ApproximateLocation" THEN undefined
  ELSE LET name == IF locationInfo.entity = "Mod"
                   THEN locationInfo.moduleName ELSE locationInfo.name
       IN  Some(packageIdToString(locationInfo.packageId) \o "/"
                  \o locationInfo.componentId \o "/"
                  \o Str(locationInfo.moduleName) \o "/"
                  \o locationInfo.entity \o "/"
                  \o fixUrlDots(name))

definitionSiteUrl(locationInfo) ==
  getHceHost \o "/" \o API_URL_PREFIX \o "/definitionSite/"
    \o getDefinitionSiteUri(locationInfo).value

globalReferencesUrl(externalId) ==
  getHceHost \o "/" \o API_URL_PREFIX \o "/globalReferences/"
    \o Str(encodeURIComponent(externalId))

referencesUrl(packageId, externalId) ==
  getHceHost \o "/" \o API_URL_PREFIX \o "/references/" \o packageId \o "/"
    \o Str(encodeURIComponent(externalId)) \o "?per_page=500"

(***************************************************************************)
(* The index the server holds (hce.ts).  Strings that the extension takes  *)
(* apart character by character are held as sequences of characters; an    *)
(* absent optional string is the empty string (both are falsy).            *)
(***************************************************************************)
PkgId == [name |-> "pkg", version |-> "1.0"]

DepId == [name |-> "dep", version |-> "2.0"]

ExactLocation(packageId, modulePath, moduleName, line, startColumn, endColumn) ==
  [tag |-> "ExactLocation", packageId |-> packageId, modulePath |-> modulePath,
   moduleName |-> moduleName, startLine |-> line, endLine |-> line,
   startColumn |-> startColumn, endColumn |-> endColumn]

ApproximateLocation(packageId, componentId, moduleName, entity, name) ==
  [tag |-> "ApproximateLocation", packageId |-> packageId,
   moduleName |-> moduleName, entity |-> entity, name |-> name,
   componentId |-> componentId]

UnknownLocation == [tag |-> "UnknownLocation"]

LocFooExact == ExactLocation(PkgId, "src/M.hs", <<"M">>, 3, 1, 4)

LocTextExact == ExactLocation(DepId, "src/Data/Text.hs", <<"D", ".", "T">>, 1, 8, 11)

LocFoo == ApproximateLocation(PkgId, "c1", <<"M">>, "Val", <<"f", "o", "o">>)

LocDot == ApproximateLocation(DepId, "lib", <<"D", ".", "T">>, "Val", <<".">>)

LocBar == ExactLocation(PkgId, "src/M.hs", <<"M">>, 7, 1, 4)

TypeInt == [components |-> << [tag |-> "TyCon", internalId |-> "t1", name |-> "Int"] >>]

TypeFun == [components |-> << [tag |-> "Text", contents |-> "a -> "],
                              [tag |-> "TyCon", internalId |-> "t1", name |-> "Int"] >>]

ExtFoo == <<"p", "|", "f">>

NoExternalId == <<>>

IdentifierInfo(occName, demangledOccName, locationInfo, idType, externalId) ==
  [sort |-> "External", occName |-> occName,
   demangledOccName |-> demangledOccName, locationInfo |-> locationInfo,
   idType |-> idType, externalId |-> externalId]

IdentifierOccurrence(internalId, isBinder, idOccType, sort) ==
  [internalId |-> internalId, isBinder |-> isBinder, idOccType |-> idOccType,
   sort |-> sort]

ValueId == [tag |-> "ValueId"]

TypeId == [tag |-> "TypeId"]

ModuleId(contents) == [tag |-> "ModuleId", contents |-> contents]

ModuleM ==
  [identifiers |->
     [x1 |-> IdentifierInfo("foo", "", LocFoo, TypeFun, ExtFoo),
      x2 |-> IdentifierInfo("zi", ".", LocDot, TypeFun, NoExternalId),
      x3 |-> IdentifierInfo("bar", "", LocBar, TypeInt, NoExternalId),
      x4 |-> IdentifierInfo("T", "", UnknownLocation, TypeInt, NoExternalId)],
   occurrences |->
     ("10-5-8" :> IdentifierOccurrence("x1", FALSE, Some(TypeInt), ValueId)) @@
     ("12-1-2" :> IdentifierOccurrence("x2", FALSE, undefined, ValueId)) @@
     ("1-8-11" :> IdentifierOccurrence("", FALSE, undefined, ModuleId(LocTextExact))) @@
     ("2-8-9" :> IdentifierOccurrence("", TRUE, undefined, ModuleId(LocFooExact))) @@
     ("5-1-2" :> IdentifierOccurrence("", FALSE, undefined, ValueId)) @@
     ("6-1-2" :> IdentifierOccurrence("x9", FALSE, undefined, ValueId)) @@
     ("7-1-4" :> IdentifierOccurrence("x3", TRUE, undefined, ValueId)) @@
     ("8-1-4" :> IdentifierOccurrence("x3", FALSE, undefined, ValueId)) @@
     ("9-1-2" :> IdentifierOccurrence("x4", FALSE, undefined, TypeId))]

IdentifierSrcSpan(modulePath, line, startColumn, endColumn) ==
  [modulePath |-> modulePath, line |-> line, startColumn |-> startColumn,
   endColumn |-> endColumn]

ReferenceWithSource(idSrcSpan) ==
  [sourceCodeHtml |-> "<td/>", idSrcSpan |-> idSrcSpan]

SourceFilesPkg ==
  << [name |-> "src/M.hs",
      references |-> << ReferenceWithSource(IdentifierSrcSpan("src/M.hs", 10, 5, 8)),
                        ReferenceWithSource(IdentifierSrcSpan("src/M.hs", 8, 1, 4)) >>],
     [name |-> "app/Main.hs",
      references |-> << ReferenceWithSource(IdentifierSrcSpan("app/Main.hs", 4, 2, 5)) >>] >>

SourceFilesDep ==
  << [name |-> "src/Data/Text.hs",
      references |-> << ReferenceWithSource(IdentifierSrcSpan("src/Data/Text.hs", 20, 3, 6)) >>] >>

GlobalReferencesFoo ==
  << [count |-> 3, packageId |-> "pkg-1.0"], [count |-> 1, packageId |-> "dep-2.0"] >>

\* what the server holds, by URL
ServerIndex ==
  (haskellModuleUrl([packageId |-> PkgId, packageFolder |-> <<"ws", "pkg">>], DocM)
     :> ModuleM) @@
  (definitionSiteUrl(LocFoo) :> [location |-> LocFooExact]) @@
  (definitionSiteUrl(LocDot) :> [location |-> LocFoo]) @@
  (globalReferencesUrl(ExtFoo) :> GlobalReferencesFoo) @@
  (referencesUrl("pkg-1.0", ExtFoo) :> SourceFilesPkg) @@
  (referencesUrl("dep-2.0", ExtFoo) :> SourceFilesDep)

(***************************************************************************)
(* The network.  axios.get(url) ends in a response, whose body may be      *)
(* empty, or rejects with an error.                                        *)
(***************************************************************************)
Response(data) == [tag |-> "response", data |-> data]

AxiosError(code, status) == [tag |-> "error", code |-> code, status |-> status]

ConnectionRefused == AxiosError("ECONNREFUSED", 0)

NotFound == AxiosError("", 404)

ServerError == AxiosError("", 500)

EmptyBody == Response(undefined)

\* every way a GET can end: the server answers from its index (404 for what
\* it does not hold), or the request fails, or the body is empty
OutcomeKinds == {"served", "refused", "notFound", "serverError", "emptyBody"}

Outcome(url, kind) ==
  CASE kind = "served" ->
         IF url \in DOMAIN ServerIndex THEN Response(Some(ServerIndex[url]))
         ELSE NotFound
    [] kind = "refused" -> ConnectionRefused
    [] kind = "notFound" -> NotFound
    [] kind = "serverError" -> ServerError
    [] kind = "emptyBody" -> EmptyBody

\* an exception, as a rejected promise carries it to the caller that awaits
thrown == [tag |-> "thrown"]

\* a fetch that would throw the errors it logs
fetchRethrowing(outcome) ==
  IF outcome.tag = "response"
  THEN IF ~Truthy(outcome.data) THEN undefined ELSE outcome.data
  ELSE IF outcome.code = "ECONNREFUSED" THEN undefined
  ELSE IF outcome.status = 404 THEN undefined
  ELSE thrown

\* fetch: the body, or undefined for an empty body and for every error
fetch(outcome) ==
  IF outcome.tag = "response"
  THEN IF ~Truthy(outcome.data) THEN undefined ELSE outcome.data
  ELSE IF outcome.code = "ECONNREFUSED" THEN undefined
  ELSE IF outcome.status = 404 THEN undefined
  ELSE undefined

(***************************************************************************)
(* Location translation.                                                   *)
(***************************************************************************)
null == [tag |-> "null"]

Range(startLine, startCharacter, endLine, endCharacter) ==
  [start |-> [line |-> startLine, character |-> startCharacter],
   end |-> [line |-> endLine, character |-> endCharacter]]

Location(uri, range) == [uri |-> uri, range |-> range]

\* a translation that would keep the 1-based coordinates of the index
haskellLocationtoVscodeLocationOneBased(locationInfo) ==
  IF locationInfo.tag # "ExactLocation" THEN null
  ELSE LET packageFolderPath ==
             packageIdToFolderPath(haskellPackages,
                                   packageIdToString(locationInfo.packageId))
       IN  IF ~Truthy(packageFolderPath) THEN null
           ELSE Some(Location(
                  PathString(packageFolderPath.value) \o "/" \o locationInfo.modulePath,
                  Range(locationInfo.startLine, locationInfo.startColumn,
                        locationInfo.endLine, locationInfo.endColumn)))

haskellLocationtoVscodeLocation(locationInfo) ==
  IF locationInfo.tag # "ExactLocation" THEN null
  ELSE LET packageFolderPath ==
             packageIdToFolderPath(haskellPackages,
                                   packageIdToString(locationInfo.packageId))
       IN  IF ~Truthy(packageFolderPath) THEN null
           ELSE Some(Location(
                  PathString(packageFolderPath.value) \o "/" \o locationInfo.modulePath,
                  Range(locationInfo.startLine - 1, locationInfo.startColumn - 1,
                        locationInfo.endLine - 1, locationInfo.endColumn - 1)))

haskellReferenceToVscodeLocation(reference) ==
  LET packageFolderPath ==
        packageIdToFolderPath(haskellPackages, reference.packageIdString)
  IN  IF ~Truthy(packageFolderPath) THEN null
      ELSE Some(Location(
             PathString(packageFolderPath.value) \o "/" \o reference.idSrcSpan.modulePath,
             Range(reference.idSrcSpan.line - 1, reference.idSrcSpan.startColumn - 1,
                   reference.idSrcSpan.line - 1, reference.idSrcSpan.endColumn - 1)))

RECURSIVE haskellReferencesToVscodeLocations(_)
haskellReferencesToVscodeLocations(refs) ==
  IF refs = <<>> THEN <<>>
  ELSE LET location == haskellReferenceToVscodeLocation(Head(refs))
       IN  (IF location = null THEN <<>> ELSE <<location.value>>)
             \o haskellReferencesToVscodeLocations(Tail(refs))

(***************************************************************************)
(* Position resolution.                                                    *)
(***************************************************************************)
\* what document.getWordRangeAtPosition can answer for a cursor position
WordRanges ==
  {Range(9, 4, 9, 7), Range(11, 0, 11, 1), Range(0, 7, 0, 10), Range(1, 7, 1, 8),
   Range(4, 0, 4, 1), Range(5, 0, 5, 1), Range(6, 0, 6, 3), Range(7, 0, 7, 3),
   Range(8, 0, 8, 1), Range(20, 0, 20, 5), Range(2, 0, 3, 1)}

MaybeWordRanges == {undefined} \cup {Some(r) : r \in WordRanges}

\* an id that would join the coordinates without a separator
wordRangeToOccurrenceIdUnseparated(wordRange) ==
  Join(<<ToString(wordRange.start.line + 1),
         ToString(wordRange.start.character + 1),
         ToString(wordRange.end.character + 1)>>, "")

\* an id that would keep the 0-based coordinates of the editor
wordRangeToOccurrenceIdZeroBased(wordRange) ==
  Join(<<ToString(wordRange.start.line),
         ToString(wordRange.start.character),
         ToString(wordRange.end.character)>>, "-")

wordRangeToOccurrenceId(wordRange) ==
  Join(<<ToString(wordRange.start.line + 1),
         ToString(wordRange.start.character + 1),
         ToString(wordRange.end.character + 1)>>, "-")

mapFromObject(obj) == [k \in DOMAIN obj |-> obj[k]]

getTypeSignature(type) ==
  Str([i \in 1..Len(type.components) |->
         IF type.components[i].tag = "Text" THEN type.components[i].contents
         ELSE type.components[i].name])

getExpressionType(identifier, type) ==
  LET name == IF TruthyString(identifier.demangledOccName)
              THEN identifier.demangledOccName ELSE identifier.occName
  IN  name \o " :: " \o getTypeSignature(type)

getModuleHoverInfo(location) ==
  IF location.tag = "UnknownLocation" THEN undefined
  ELSE Some((IF location.tag = "ExactLocation"
             THEN "{- " \o location.modulePath \o " -}\n" ELSE "")
            \o "module " \o Str(location.moduleName))

(***************************************************************************)
(* Bags of tasks awaiting a network response.                              *)
(***************************************************************************)
EmptyBag == [x \in {} |-> 0]

BagAdd(bag, e) ==
  [x \in DOMAIN bag \cup {e} |->
     IF x = e THEN (IF e \in DOMAIN bag THEN bag[e] + 1 ELSE 1) ELSE bag[x]]

BagRemove(bag, e) ==
  [x \in (IF bag[e] = 1 THEN DOMAIN bag \ {e} ELSE DOMAIN bag) |->
     IF x = e THEN bag[e] - 1 ELSE bag[x]]

RECURSIVE SumOver(_, _)
SumOver(bag, elems) ==
  IF elems = {} THEN 0
  ELSE LET e == CHOOSE x \in elems : TRUE
       IN  bag[e] + SumOver(bag, elems \ {e})

BagSize(bag) == SumOver(bag, DOMAIN bag)

(***************************************************************************)
(* The synchronous part of a provider call ends in a step: it returns      *)
(* (kind "done"), or it awaits a fetch it has issued (kind "await").       *)
(* prefetch says that fetchModuleInfo(document) was called on the way.     *)
(***************************************************************************)
Done(result, log, locationInfo) ==
  [kind |-> "done", result |-> result, log |-> log, prefetch |-> FALSE,
   locationInfo |-> locationInfo, externalId |-> <<>>]

Miss(log) == Done(undefined, log, undefined)

\* a module miss that forgets to call fetchModuleInfo
ModuleMissWithoutFetch(log) == Miss(log)

ModuleMiss(log) == [Miss(log) EXCEPT !.prefetch = TRUE]

AwaitDefinitionSite(locationInfo) ==
  [kind |-> "await", result |-> undefined, log |-> "", prefetch |-> FALSE,
   locationInfo |-> Some(locationInfo), externalId |-> <<>>]

AwaitAllReferences(externalId) ==
  [kind |-> "await", result |-> undefined, log |-> "", prefetch |-> FALSE,
   locationInfo |-> undefined, externalId |-> externalId]

IsMultiLine(wordRange) == wordRange.start.line # wordRange.end.line

(***************************************************************************)
(* Hover.                                                                  *)
(***************************************************************************)
\* the markdown code quotes are written ' and ~~~ here
HoverContents(identifier, occurrence) ==
  << [language |-> "haskell",
      value |-> getExpressionType(identifier, identifier.idType)] >>
  \o (IF Truthy(occurrence.idOccType)
      THEN << [markdown |-> "Instantiated type:\n\n~~~haskell\n"
                 \o getExpressionType(identifier, occurrence.idOccType.value)
                 \o "\n~~~"] >>
      ELSE <<>>)
  \o (IF identifier.locationInfo.tag = "ApproximateLocation"
      THEN << [markdown |-> "Defined in package '"
                 \o identifier.locationInfo.packageId.name \o "' module '"
                 \o Str(identifier.locationInfo.moduleName) \o "'"] >>
      ELSE IF identifier.locationInfo.tag = "ExactLocation"
      THEN << [markdown |-> "Defined in '" \o identifier.locationInfo.modulePath
                 \o "' line '" \o ToString(identifier.locationInfo.startLine)
                 \o "' column '" \o ToString(identifier.locationInfo.startColumn)
                 \o "'"] >>
      ELSE <<>>)

provideHover(document, maybeWordRange) ==
  IF ~Truthy(maybeWordRange) THEN Miss("Could not get word range")
  ELSE LET wordRange == maybeWordRange.value IN
  IF IsMultiLine(wordRange) THEN Miss("Identifier spans multiple lines")
  ELSE LET moduleInfo == MapGet(haskellModules, PathString(document.path)) IN
  IF ~Truthy(moduleInfo) THEN ModuleMiss("Module info not available")
  ELSE LET occurrence == MapGet(moduleInfo.value.occurrences,
                                wordRangeToOccurrenceId(wordRange)) IN
  IF ~Truthy(occurrence) THEN Miss("Could not find occurence")
  ELSE IF occurrence.value.sort.tag = "ModuleId"
  THEN LET hoverInfo == getModuleHoverInfo(occurrence.value.sort.contents)
       IN  IF ~Truthy(hoverInfo) THEN Miss("No info for module")
           ELSE Done(Some([contents |-> << [language |-> "haskell",
                                            value |-> hoverInfo.value] >>,
                           range |-> wordRange]), "", undefined)
  ELSE LET internalId == occurrence.value.internalId IN
  IF ~TruthyString(internalId) THEN Miss("No internalId")
  ELSE LET identifier == MapGet(moduleInfo.value.identifiers, internalId) IN
  IF ~Truthy(identifier) THEN Miss("Could not find identifier")
  ELSE Done(Some([contents |-> HoverContents(identifier.value, occurrence.value),
                  range |-> wordRange]), "", undefined)

(***************************************************************************)
(* Go to definition.                                                       *)
(***************************************************************************)
\* a lookup that would never find the cached definition site
cachedDefinitionSiteNever(definitionSiteUri) == undefined

\* definitionSites.get(definitionSiteUri)
cachedDefinitionSite(definitionSiteUri) == MapGet(definitionSites, definitionSiteUri)

\* a resolution that would look every location up by its definition-site
\* URI, which an exact location has none of
provideDefinitionFromLocationInfoByUri(locationInfo) ==
  LET definitionSiteUri == getDefinitionSiteUri(locationInfo) IN
  IF ~Truthy(definitionSiteUri)
  THEN Done(undefined, "Could not get URI for location info",
            Some(locationInfo))
  ELSE LET cached == cachedDefinitionSite(definitionSiteUri.value) IN
  IF Truthy(cached)
  THEN IF cached.value.location.tag = "ExactLocation"
       THEN Done(haskellLocationtoVscodeLocation(cached.value.location), "",
                 Some(locationInfo))
       ELSE Done(undefined, "Cached item is not exact location",
                 Some(locationInfo))
  ELSE AwaitDefinitionSite(locationInfo)

provideDefinitionFromLocationInfo(locationInfo) ==
  IF locationInfo.tag = "ExactLocation"
  THEN Done(haskellLocationtoVscodeLocation(locationInfo), "",
            Some(locationInfo))
  ELSE LET definitionSiteUri == getDefinitionSiteUri(locationInfo) IN
  IF ~Truthy(definitionSiteUri)
  THEN Done(undefined, "Could not get URI for location info",
            Some(locationInfo))
  ELSE LET cached == cachedDefinitionSite(definitionSiteUri.value) IN
  IF Truthy(cached)
  THEN IF cached.value.location.tag = "ExactLocation"
       THEN Done(haskellLocationtoVscodeLocation(cached.value.location), "",
                 Some(locationInfo))
       ELSE Done(undefined, "Cached item is not exact location",
                 Some(locationInfo))
  ELSE AwaitDefinitionSite(locationInfo)

provideDefinition(document, maybeWordRange) ==
  IF ~Truthy(maybeWordRange) THEN Miss("Could not get word range")
  ELSE LET wordRange == maybeWordRange.value IN
  IF IsMultiLine(wordRange) THEN Miss("Identifier spans multiple lines")
  ELSE LET moduleInfo == MapGet(haskellModules, PathString(document.path)) IN
  IF ~Truthy(moduleInfo) THEN ModuleMiss("No info for module")
  ELSE LET occurrence == MapGet(moduleInfo.value.occurrences,
                                wordRangeToOccurrenceId(wordRange)) IN
  IF ~Truthy(occurrence) THEN Miss("Could not find occurence")
  ELSE IF occurrence.value.sort.tag = "ModuleId"
  THEN provideDefinitionFromLocationInfo(occurrence.value.sort.contents)
  ELSE LET internalId == occurrence.value.internalId IN
  IF ~TruthyString(internalId) THEN Miss("No internalId")
  ELSE LET identifier == MapGet(moduleInfo.value.identifiers, internalId) IN
  IF ~Truthy(identifier) THEN Miss("Could not find identifier")
  ELSE IF occurrence.value.isBinder THEN Miss("Occurence is binder")
  ELSE provideDefinitionFromLocationInfo(identifier.value.locationInfo)

\* fetchDefinitionSite up to its fetch: the requests it issues, none for a
\* location that has no definition-site URI
fetchDefinitionSite(locationInfo) ==
  IF ~Truthy(getDefinitionSiteUri(locationInfo)) THEN <<>>
  ELSE <<definitionSiteUrl(locationInfo)>>

\* a fetchDefinitionSite that keeps only the exact definition sites
definitionSitesAfterFetchExactOnly(locationInfo, definitionSite) ==
  IF ~Truthy(definitionSite) \/ definitionSite.value.location.tag # "ExactLocation"
  THEN definitionSites
  ELSE MapSet(definitionSites, getDefinitionSiteUri(locationInfo).value,
              definitionSite.value)

\* fetchDefinitionSite after its fetch: the definitionSites it leaves
definitionSitesAfterFetch(locationInfo, definitionSite) ==
  IF ~Truthy(definitionSite) THEN definitionSites
  ELSE MapSet(definitionSites, getDefinitionSiteUri(locationInfo).value,
              definitionSite.value)

\* a continuation that would resolve a nested approximate location in turn
definitionSiteFetchedChasing(locationInfo, definitionSite) ==
  IF ~Truthy(definitionSite)
  THEN Done(undefined, "Could not fetch definition site", Some(locationInfo))
  ELSE IF definitionSite.value.location.tag = "ExactLocation"
  THEN Done(haskellLocationtoVscodeLocation(definitionSite.value.location), "",
            Some(locationInfo))
  ELSE IF definitionSite.value.location.tag = "ApproximateLocation"
  THEN AwaitDefinitionSite(definitionSite.value.location)
  ELSE Done(undefined, "Location is not exact location", Some(locationInfo))

\* provideDefinitionFromLocationInfo after `await fetchDefinitionSite`
definitionSiteFetched(locationInfo, definitionSite) ==
  IF ~Truthy(definitionSite)
  THEN Done(undefined, "Could not fetch definition site", Some(locationInfo))
  ELSE IF definitionSite.value.location.tag = "ExactLocation"
  THEN Done(haskellLocationtoVscodeLocation(definitionSite.value.location), "",
            Some(locationInfo))
  ELSE Done(undefined, "Location is not exact location", Some(locationInfo))

(***************************************************************************)
(* Find references.                                                        *)
(***************************************************************************)
\* a lookup that would take an empty cached list for no entry
cachedReferencesNonEmpty(externalId) ==
  IF MapHas(references, externalId) /\ references[externalId] # <<>>
  THEN Some(references[externalId])
  ELSE undefined

\* references.get(externalId)
cachedReferences(externalId) == MapGet(references, externalId)

provideReferences(document, maybeWordRange) ==
  IF ~Truthy(maybeWordRange) THEN Miss("Could not get word range")
  ELSE LET wordRange == maybeWordRange.value IN
  IF IsMultiLine(wordRange) THEN Miss("Identifier spans multiple lines")
  ELSE LET moduleInfo == MapGet(haskellModules, PathString(document.path)) IN
  IF ~Truthy(moduleInfo) THEN ModuleMiss("No module info")
  ELSE LET occurrence == MapGet(moduleInfo.value.occurrences,
                                wordRangeToOccurrenceId(wordRange)) IN
  IF ~Truthy(occurrence) THEN Miss("Could not find occurence")
  ELSE LET internalId == occurrence.value.internalId IN
  IF ~TruthyString(internalId) THEN Miss("No internalId")
  ELSE LET identifier == MapGet(moduleInfo.value.identifiers, internalId) IN
  IF ~Truthy(identifier) THEN Miss("Could not find identifier")
  ELSE LET externalId == identifier.value.externalId IN
  IF externalId = <<>> THEN Miss("No externalId")
  ELSE LET cached == cachedReferences(externalId) IN
  IF Truthy(cached)
  THEN [Done(Some(haskellReferencesToVscodeLocations(cached.value)),
             "", undefined) EXCEPT !.externalId = externalId]
  ELSE AwaitAllReferences(externalId)

\* a per-package query that has not completed
pending == [tag |-> "pending"]

\* fetchReferencesInPackage after its fetch: the references of the package,
\* each tagged with the package, or none when the fetch failed
fetchReferencesInPackage(packageIdString, sourceFiles) ==
  IF ~Truthy(sourceFiles) THEN <<>>
  ELSE Flatten([i \in 1..Len(sourceFiles.value) |->
         [j \in 1..Len(sourceFiles.value[i].references) |->
            [packageIdString |-> packageIdString,
             idSrcSpan |-> sourceFiles.value[i].references[j].idSrcSpan]]])

\* Promise.all has resolved: every per-package promise is settled
AllSettled(results) == \A i \in 1..Len(results) : results[i] # pending

\* a failed discovery that would cache an empty list
fetchAllReferencesFailedCaching(externalId) == MapSet(references, externalId, <<>>)

\* fetchAllReferences when the discovery fetch gave nothing: it returns
\* without writing the cache
fetchAllReferencesFailed(externalId) == references

\* a merge in which one failed query would void the whole result
MergeReferencesAllOrNothing(call) ==
  IF \E i \in 1..Len(call.results) : call.results[i].value = <<>> THEN <<>>
  ELSE Flatten([i \in 1..Len(call.results) |-> call.results[i].value])

\* a merge that would take the queries in the order they completed
MergeReferencesInCompletionOrder(call) ==
  Flatten([k \in 1..Len(call.completed) |-> call.results[call.completed[k]].value])

\* a merge that would keep only the references whose package the registry
\* knows when the queries have completed
MergeReferencesOfKnownPackages(call) ==
  SelectSeq(Flatten([i \in 1..Len(call.results) |-> call.results[i].value]),
            LAMBDA reference :
              Truthy(packageIdToFolderPath(haskellPackages,
                                           reference.packageIdString)))

\* result.forEach(item => references = references.concat(item))
MergeReferences(call) ==
  Flatten([i \in 1..Len(call.results) |-> call.results[i].value])

(***************************************************************************)
(* Module fetch.                                                           *)
(***************************************************************************)
\* fetchModuleInfo(document) with `fetches` in flight: the fetches after it
fetchModuleInfo(document, fetches) ==
  LET packageInfo == lookupPackageInfo(haskellPackages, document)
  IN  IF ~Truthy(packageInfo) THEN fetches
      ELSE BagAdd(fetches,
                  [path |-> PathString(document.path),
                   url |-> haskellModuleUrl(packageInfo.value, document)])

maybeFetchModuleInfo(document, fetches) ==
  IF ~isHaskellFile(document) THEN fetches
  ELSE IF MapHas(haskellModules, PathString(document.path)) THEN fetches
  ELSE fetchModuleInfo(document, fetches)

\* a module fetch that would cache an empty module when it failed
haskellModulesAfterFetchCachingFailure(path, data) ==
  MapSet(haskellModules, path,
         IF Truthy(data)
         THEN [identifiers |-> mapFromObject(data.value.identifiers),
               occurrences |-> mapFromObject(data.value.occurrences)]
         ELSE [identifiers |-> EmptyMap, occurrences |-> EmptyMap])

\* a module fetch that would store the module under the document's URI
\* string instead of its path
haskellModulesAfterFetchKeyedByUri(path, data) ==
  IF ~Truthy(data) THEN haskellModules
  ELSE MapSet(haskellModules, "file://" \o path,
              [identifiers |-> mapFromObject(data.value.identifiers),
               occurrences |-> mapFromObject(data.value.occurrences)])

\* fetchHaskellModule after its fetch: the haskellModules it leaves
haskellModulesAfterFetch(path, data) ==
  IF ~Truthy(data) THEN haskellModules
  ELSE MapSet(haskellModules, path,
              [identifiers |-> mapFromObject(data.value.identifiers),
               occurrences |-> mapFromObject(data.value.occurrences)])

(***************************************************************************)
(* State machine.                                                          *)
(***************************************************************************)
NoCall ==
  [op |-> "none", document |-> "", wordRange |-> undefined, result |-> undefined,
   log |-> "", prefetch |-> FALSE, requests |-> <<>>, cacheHit |-> FALSE,
   locationInfo |-> undefined, externalId |-> <<>>, awaiting |-> "",
   packages |-> <<>>, results |-> <<>>, completed |-> <<>>, failed |-> {}]

\* history: the cache held an entry for the key of the call when it started
CacheHeld(op, step) ==
  IF op = "definition"
  THEN /\ Truthy(step.locationInfo)
       /\ Truthy(getDefinitionSiteUri(step.locationInfo.value))
       /\ MapHas(definitionSites, getDefinitionSiteUri(step.locationInfo.value).value)
  ELSE IF op = "references"
  THEN step.externalId # <<>> /\ MapHas(references, step.externalId)
  ELSE FALSE

\* a call as it starts, and as it returns with the step that ended it
NewCall(op, document, maybeWordRange, step, requests) ==
  [op |-> op, document |-> PathString(document.path), wordRange |-> maybeWordRange,
   result |-> step.result, log |-> step.log, prefetch |-> step.prefetch,
   requests |-> requests, cacheHit |-> CacheHeld(op, step),
   locationInfo |-> step.locationInfo, externalId |-> step.externalId,
   awaiting |-> IF step.kind = "done" THEN ""
                ELSE IF op = "definition" THEN "definitionSite"
                ELSE "globalReferences",
   packages |-> <<>>, results |-> <<>>, completed |-> <<>>, failed |-> {}]

Finished(call, step) ==
  [call EXCEPT !.result = step.result, !.log = step.log, !.awaiting = ""]

\* no function is being evaluated on its own
NotEvaluated == [function |-> "none", args |-> <<>>, value |-> <<>>]

\* globalState as the module leaves it, before activate()
Started ==
  /\ activated = FALSE
  /\ cabalFiles = WorkspaceSmall
  /\ pendingLoads = <<>>
  /\ haskellPackages = <<>>
  /\ haskellModules = EmptyMap
  /\ definitionSites = EmptyMap
  /\ references = EmptyMap
  /\ moduleFetches = EmptyBag
  /\ failedFetches = {}
  /\ calls = EmptyBag
  /\ returned = NoCall
  /\ issued = 0

Init == Started /\ evaluated = NotEvaluated

\* visibleTextEditors.forEach(editor => maybeFetchModuleInfo(editor.document))
RECURSIVE HeadStart(_, _)
HeadStart(documents, fetches) ==
  IF documents = {} THEN fetches
  ELSE LET d == CHOOSE x \in documents : TRUE
       IN  HeadStart(documents \ {d}, maybeFetchModuleInfo(d, fetches))

\* activate(): the providers are registered, the visible editors get their
\* head start, and the package discovery is started
Activate(visible) ==
  /\ ~activated
  /\ activated' = TRUE
  /\ moduleFetches' = HeadStart(visible, moduleFetches)
  /\ BagSize(moduleFetches') <= MaxModuleFetches
  /\ pendingLoads' = Append(pendingLoads, cabalFiles)
  /\ UNCHANGED <<evaluated, issued, cabalFiles, haskellPackages, haskellModules, definitionSites,
                 references, failedFetches, calls, returned>>

\* onDidChangeWorkspaceFolders: loadPackagesInfo over the new folder set,
\* with at most `loads` discoveries pending
WorkspaceFoldersChanged(files, loads) ==
  /\ activated
  /\ files # cabalFiles
  /\ Len(pendingLoads) < loads
  /\ cabalFiles' = files
  /\ pendingLoads' = Append(pendingLoads, files)
  /\ UNCHANGED <<evaluated, issued, activated, haskellPackages, haskellModules, definitionSites,
                 references, moduleFetches, failedFetches, calls, returned>>

\* the whole-session specification takes the discoveries MaxLoads at a time
ChangeWorkspaceFolders(files) == WorkspaceFoldersChanged(files, MaxLoads)

\* the then-callback of loadPackagesInfo, for any of the pending discoveries
FindFilesResolved(i) ==
  /\ i \in 1..Len(pendingLoads)
  /\ haskellPackages' = PackagesOf(pendingLoads[i])
  /\ pendingLoads' = [j \in 1..(Len(pendingLoads) - 1) |->
                        IF j < i THEN pendingLoads[j] ELSE pendingLoads[j + 1]]
  /\ UNCHANGED <<evaluated, issued, activated, cabalFiles, haskellModules, definitionSites,
                 references, moduleFetches, failedFetches, calls, returned>>

\* onDidOpenTextDocument
OpenTextDocument(document) ==
  /\ activated
  /\ moduleFetches' = maybeFetchModuleInfo(document, moduleFetches)
  /\ BagSize(moduleFetches') <= MaxModuleFetches
  /\ UNCHANGED <<evaluated, issued, activated, cabalFiles, pendingLoads, haskellPackages,
                 haskellModules, definitionSites, references, failedFetches,
                 calls, returned>>

\* history: the URLs whose fetch has failed
FailedAfter(url, data) ==
  IF Truthy(data) THEN failedFetches ELSE failedFetches \cup {url}

\* the provider call rejects: the fetch it awaited has thrown
Rejects(call, url) ==
  /\ calls' = BagRemove(calls, call)
  /\ returned' = [call EXCEPT !.awaiting = "", !.result = thrown]
  /\ failedFetches' = failedFetches \cup {url}
  /\ UNCHANGED <<definitionSites, references>>

\* the response of a module fetch arrives
ModuleResponse(request, kind) ==
  LET data == fetch(Outcome(request.url, kind)) IN
  /\ request \in DOMAIN moduleFetches
  /\ moduleFetches' = BagRemove(moduleFetches, request)
  /\ haskellModules' = IF data = thrown THEN haskellModules
                       ELSE haskellModulesAfterFetch(request.path, data)
  /\ failedFetches' = FailedAfter(request.url, data)
  /\ UNCHANGED <<evaluated, issued, activated, cabalFiles, pendingLoads, haskellPackages,
                 definitionSites, references, calls, returned>>

\* the module fetch a provider call starts on a module miss
Prefetch(document, step) ==
  /\ moduleFetches' = IF step.prefetch THEN fetchModuleInfo(document, moduleFetches)
                      ELSE moduleFetches
  /\ BagSize(moduleFetches') <= MaxModuleFetches

\* the key a call fetches for: its definition-site URI or its externalId
KeyOf(call) ==
  IF call.op = "definition" THEN getDefinitionSiteUri(call.locationInfo.value)
  ELSE Some(call.externalId)

\* an await that would cancel the older calls in flight for the same key
AwaitCancellingOlder(inflight, call) ==
  LET kept == {c \in DOMAIN inflight : c.op # call.op \/ KeyOf(c) # KeyOf(call)}
  IN  BagAdd([c \in kept |-> inflight[c]], call)

\* await fetch...: the call joins the ones the event loop holds; nothing
\* holds a cancellation token, the ones in flight stay
Await(inflight, call) == BagAdd(inflight, call)

\* a hover that would leave a placeholder in haskellModules on a module miss
ProvideHoverCaching(document, maybeWordRange) ==
  LET step == provideHover(document, maybeWordRange) IN
  /\ activated
  /\ isHaskellFile(document)
  /\ Prefetch(document, step)
  /\ returned' = NewCall("hover", document, maybeWordRange, step, <<>>)
  /\ haskellModules' =
       IF step.prefetch
       THEN MapSet(haskellModules, PathString(document.path),
                   [identifiers |-> EmptyMap, occurrences |-> EmptyMap])
       ELSE haskellModules
  /\ UNCHANGED <<evaluated, issued, activated, cabalFiles, pendingLoads, haskellPackages,
                 definitionSites, references, failedFetches, calls>>

ProvideHover(document, maybeWordRange) ==
  LET step == provideHover(document, maybeWordRange) IN
  /\ activated
  /\ isHaskellFile(document)
  /\ Prefetch(document, step)
  /\ returned' = NewCall("hover", document, maybeWordRange, step, <<>>)
  /\ UNCHANGED <<evaluated, issued, activated, cabalFiles, pendingLoads, haskellPackages,
                 haskellModules, definitionSites, references, failedFetches,
                 calls>>

ProvideDefinition(document, maybeWordRange) ==
  LET step == provideDefinition(document, maybeWordRange) IN
  /\ activated
  /\ isHaskellFile(document)
  /\ Prefetch(document, step)
  /\ IF step.kind = "done"
     THEN /\ returned' = NewCall("definition", document, maybeWordRange, step, <<>>)
          /\ calls' = calls
     ELSE LET requests == fetchDefinitionSite(step.locationInfo.value) IN
          IF requests = <<>>
          THEN /\ returned' =
                    Finished(NewCall("definition", document, maybeWordRange, step, <<>>),
                             definitionSiteFetched(step.locationInfo.value, undefined))
               /\ calls' = calls
          ELSE /\ BagSize(calls) < MaxInflight
               /\ calls' = Await(calls,
                    NewCall("definition", document, maybeWordRange, step, requests))
               /\ returned' = returned
  /\ UNCHANGED <<evaluated, activated, cabalFiles, pendingLoads, haskellPackages,
                 haskellModules, definitionSites, references, failedFetches>>

\* the response of a definition-site fetch arrives
DefinitionSiteResponse(call, kind) ==
  /\ call \in DOMAIN calls
  /\ call.awaiting = "definitionSite"
  /\ LET url == call.requests[Len(call.requests)]
         definitionSite == fetch(Outcome(url, kind))
         step == definitionSiteFetched(call.locationInfo.value, definitionSite)
     IN  IF definitionSite = thrown THEN Rejects(call, url) ELSE
         /\ definitionSites' =
              definitionSitesAfterFetch(call.locationInfo.value, definitionSite)
         /\ failedFetches' = FailedAfter(url, definitionSite)
         /\ IF step.kind = "done"
            THEN /\ calls' = BagRemove(calls, call)
                 /\ returned' = Finished(call, step)
            ELSE /\ calls' = BagAdd(BagRemove(calls, call),
                      [call EXCEPT
                         !.locationInfo = step.locationInfo,
                         !.requests = Append(@, definitionSiteUrl(step.locationInfo.value))])
                 /\ returned' = returned
  /\ UNCHANGED <<evaluated, issued, activated, cabalFiles, pendingLoads, haskellPackages,
                 haskellModules, references, moduleFetches>>

ProvideReferences(document, maybeWordRange) ==
  LET step == provideReferences(document, maybeWordRange) IN
  /\ activated
  /\ isHaskellFile(document)
  /\ Prefetch(document, step)
  /\ IF step.kind = "done"
     THEN /\ returned' = NewCall("references", document, maybeWordRange, step, <<>>)
          /\ calls' = calls
     ELSE /\ BagSize(calls) < MaxInflight
          /\ calls' = Await(calls,
               NewCall("references", document, maybeWordRange, step,
                       <<globalReferencesUrl(step.externalId)>>))
          /\ returned' = returned
  /\ UNCHANGED <<evaluated, activated, cabalFiles, pendingLoads, haskellPackages,
                 haskellModules, definitionSites, references, failedFetches>>

\* fetchAllReferences after discovery: one query per discovered package,
\* in the order of the discovery, all started together
StartFanOut(call, globalReferences) ==
  LET packages == [i \in 1..Len(globalReferences) |-> globalReferences[i].packageId]
  IN  [call EXCEPT
         !.awaiting = "references",
         !.packages = packages,
         !.results = [i \in 1..Len(packages) |-> pending],
         !.requests = @ \o [i \in 1..Len(packages) |->
                              referencesUrl(packages[i], call.externalId)]]

\* a failed query that would settle the queries still pending as empty
SettleReferencesAborting(call, i, sourceFiles) ==
  [call EXCEPT
     !.results = [j \in 1..Len(call.results) |->
        IF j = i THEN Some(fetchReferencesInPackage(call.packages[i], sourceFiles))
        ELSE IF ~Truthy(sourceFiles) /\ call.results[j] = pending THEN Some(<<>>)
        ELSE call.results[j]]]

\* the promise of the i-th per-package query settles
SettleReferences(call, i, sourceFiles) ==
  [call EXCEPT
     !.results[i] = Some(fetchReferencesInPackage(call.packages[i], sourceFiles))]

\* history: the order the queries completed in, and the ones that failed
Completed(call, i, sourceFiles) ==
  [call EXCEPT !.completed = Append(@, i),
               !.failed = IF Truthy(sourceFiles) THEN @ ELSE @ \cup {i}]

\* fetchAllReferences after Promise.all, and provideReferences after it
MergeAndReturn(call) ==
  /\ references' = MapSet(references, call.externalId, MergeReferences(call))
  /\ returned' =
       [call EXCEPT !.awaiting = "",
                    !.result = Some(haskellReferencesToVscodeLocations(
                                      MergeReferences(call)))]

\* the response of the discovery (globalReferences) fetch arrives
GlobalReferencesResponse(call, kind) ==
  /\ call \in DOMAIN calls
  /\ call.awaiting = "globalReferences"
  /\ LET globalReferences == fetch(Outcome(call.requests[1], kind)) IN
     IF globalReferences = thrown THEN Rejects(call, call.requests[1]) ELSE
     /\ failedFetches' = FailedAfter(call.requests[1], globalReferences)
     /\ IF ~Truthy(globalReferences)
        THEN /\ calls' = BagRemove(calls, call)
             /\ returned' = [call EXCEPT !.awaiting = "",
                                         !.log = "Could not fetch references"]
             /\ references' = fetchAllReferencesFailed(call.externalId)
        ELSE LET started == StartFanOut(call, globalReferences.value) IN
             IF AllSettled(started.results)
             THEN /\ calls' = BagRemove(calls, call)
                  /\ MergeAndReturn(started)
             ELSE /\ calls' = BagAdd(BagRemove(calls, call), started)
                  /\ UNCHANGED <<references, returned>>
  /\ UNCHANGED <<evaluated, issued, activated, cabalFiles, pendingLoads, haskellPackages,
                 haskellModules, definitionSites, moduleFetches>>

\* the response of the i-th per-package fetch arrives
ReferencesResponse(call, i, kind) ==
  /\ call \in DOMAIN calls
  /\ call.awaiting = "references"
  /\ i \in 1..Len(call.packages)
  /\ call.results[i] = pending
  /\ LET url == referencesUrl(call.packages[i], call.externalId)
         sourceFiles == fetch(Outcome(url, kind))
         settled == Completed(SettleReferences(call, i, sourceFiles), i, sourceFiles)
     IN  IF sourceFiles = thrown THEN Rejects(call, url) ELSE
         /\ failedFetches' = FailedAfter(url, sourceFiles)
         /\ IF AllSettled(settled.results)
            THEN /\ calls' = BagRemove(calls, call)
                 /\ MergeAndReturn(settled)
            ELSE /\ calls' = BagAdd(BagRemove(calls, call), settled)
                 /\ UNCHANGED <<references, returned>>
  /\ UNCHANGED <<evaluated, issued, activated, cabalFiles, pendingLoads, haskellPackages,
                 haskellModules, definitionSites, moduleFetches>>

\* the cursors the host calls the providers with: every word range of
\* M.hs, and one in a file outside every package
Cursors ==
  {<<DocM, w>> : w \in MaybeWordRanges} \cup {<<DocOutside, Some(Range(9, 4, 9, 7))>>}

\* the cursors of the whole-session specification: no word, foo, and `.`
SessionCursors ==
  {<<DocM, undefined>>, <<DocM, Some(Range(9, 4, 9, 7))>>,
   <<DocM, Some(Range(11, 0, 11, 1))>>}

\* the host takes the result of the call that returned
Collect ==
  /\ returned # NoCall
  /\ returned' = NoCall
  /\ UNCHANGED <<evaluated, issued, activated, cabalFiles, pendingLoads, haskellPackages,
                 haskellModules, definitionSites, references, moduleFetches,
                 failedFetches, calls>>

Collected == returned = NoCall

\* no provider call awaits the network: the whole-session specification
\* takes the calls that fetch one at a time (SpecDefinition and
\* SpecReferences overlap them)
NoneAwaiting == calls = EmptyBag

Startup ==
  \/ \E visible \in SUBSET Documents : Activate(visible)
  \/ \E i \in 1..Len(pendingLoads) : FindFilesResolved(i)
  \/ \E d \in Documents : OpenTextDocument(d)
  \/ \E r \in DOMAIN moduleFetches, k \in OutcomeKinds : ModuleResponse(r, k)

DefinitionResponses ==
  \E c \in DOMAIN calls, k \in OutcomeKinds : DefinitionSiteResponse(c, k)

ReferencesResponses ==
  \/ \E c \in DOMAIN calls, k \in OutcomeKinds : GlobalReferencesResponse(c, k)
  \/ \E c \in DOMAIN calls, i \in 1..Len(GlobalReferencesFoo), k \in OutcomeKinds :
       ReferencesResponse(c, i, k)

NextDefinition ==
  \/ Collect
  \/ Collected /\ Startup
  \/ Collected /\ \E c \in Cursors : ProvideDefinition(c[1], c[2])
       /\ UNCHANGED issued
  \/ Collected /\ DefinitionResponses

NextHover ==
  \/ Collect
  \/ Collected /\ Startup
  \/ Collected /\ \E c \in Cursors : ProvideHover(c[1], c[2])

\* the three providers on every cursor, the calls that fetch one at a time
NextProviders ==
  \/ Collect
  \/ Collected /\ Startup
  \/ Collected /\ \E c \in Cursors : ProvideHover(c[1], c[2])
  \/ Collected /\ NoneAwaiting /\ \E c \in Cursors : ProvideDefinition(c[1], c[2])
       /\ UNCHANGED issued
  \/ Collected /\ NoneAwaiting /\ \E c \in Cursors : ProvideReferences(c[1], c[2])
       /\ UNCHANGED issued
  \/ Collected /\ DefinitionResponses
  \/ Collected /\ ReferencesResponses

NextReferences ==
  \/ Collect
  \/ Collected /\ Startup
  \/ Collected /\ \E c \in Cursors : ProvideReferences(c[1], c[2])
       /\ UNCHANGED issued
  \/ Collected /\ ReferencesResponses

Next ==
  \/ Collect
  \/ Collected /\ Startup
  \/ Collected /\ \E files \in Workspaces : ChangeWorkspaceFolders(files)
  \/ Collected /\ \E c \in SessionCursors : ProvideHover(c[1], c[2])
  \/ Collected /\ NoneAwaiting /\ \E c \in SessionCursors : ProvideDefinition(c[1], c[2])
       /\ UNCHANGED issued
  \/ Collected /\ NoneAwaiting /\ \E c \in SessionCursors : ProvideReferences(c[1], c[2])
       /\ UNCHANGED issued
  \/ Collected /\ DefinitionResponses
  \/ Collected /\ ReferencesResponses

\* the cursor both overlapping providers are called with: foo in M.hs
OverlapCursors == {<<DocM, Some(Range(9, 4, 9, 7))>>}

\* the host makes one more of its MaxCalls calls
Counted == issued < MaxCalls /\ issued' = issued + 1

\* go-to-definition and find-references on foo, overlapping
NextOverlap ==
  \/ Collect
  \/ Collected /\ Startup
  \/ Collected /\ Counted /\ \E c \in OverlapCursors : ProvideDefinition(c[1], c[2])
  \/ Collected /\ Counted /\ \E c \in OverlapCursors : ProvideReferences(c[1], c[2])
  \/ Collected /\ DefinitionResponses
  \/ Collected /\ ReferencesResponses

SpecDefinition == Init /\ [][NextDefinition]_vars

SpecHover == Init /\ [][NextHover]_vars

SpecProviders == Init /\ [][NextProviders]_vars

SpecReferences == Init /\ [][NextReferences]_vars

Spec == Init /\ [][Next]_vars

\* activation and the folder changes alone, their discoveries overlapping
NextLoads ==
  \/ Startup
  \/ \E files \in Workspaces : WorkspaceFoldersChanged(files, MaxOverlap)

SpecLoads == Init /\ [][NextLoads]_vars

(***************************************************************************)
(* The functions of the extension applied on their own: the inputs are     *)
(* drawn in the initial state, and one step applies the function to them.  *)
(***************************************************************************)
\* the state of the extension, which an application on its own leaves alone
program == <<activated, cabalFiles, pendingLoads, haskellPackages, haskellModules,
             definitionSites, references, moduleFetches, failedFetches, calls,
             returned, issued>>

Evaluation(function, args) == [function |-> function, args |-> args, value |-> <<>>]

\* 0-based editor coordinates of one and of two digits, and their successors
Coordinates == {0, 1, 10, 11}

\* single-line word ranges, one for every (line, startColumn, endColumn)
SingleLineRanges ==
  {Range(l, s, l, e) : l \in Coordinates, s \in Coordinates, e \in Coordinates}

InitOccurrenceId ==
  /\ Started
  /\ evaluated \in {Evaluation("wordRangeToOccurrenceId", <<a, b>>) :
                      a \in SingleLineRanges, b \in SingleLineRanges}

\* wordRangeToOccurrenceId applied to two word ranges
EvaluateOccurrenceId ==
  /\ evaluated.function = "wordRangeToOccurrenceId"
  /\ evaluated.value = <<>>
  /\ evaluated' = [evaluated EXCEPT
                     !.value = <<wordRangeToOccurrenceId(evaluated.args[1]),
                                 wordRangeToOccurrenceId(evaluated.args[2])>>]
  /\ UNCHANGED program

SpecOccurrenceId == InitOccurrenceId /\ [][EvaluateOccurrenceId]_vars

\* the names fixUrlDots is applied to: up to MaxNameLen characters, each a
\* dot or a letter
MaxNameLen == 3

Names ==
  UNION {[1..n -> {".", "a"}] : n \in 0..MaxNameLen}

InitFixUrlDots ==
  /\ Started
  /\ evaluated \in {Evaluation("fixUrlDots", <<a, b>>) : a \in Names, b \in Names}

\* fixUrlDots applied to two names
EvaluateFixUrlDots ==
  /\ evaluated.function = "fixUrlDots"
  /\ evaluated.value = <<>>
  /\ evaluated' = [evaluated EXCEPT
                     !.value = <<fixUrlDots(evaluated.args[1]),
                                 fixUrlDots(evaluated.args[2])>>]
  /\ UNCHANGED program

SpecFixUrlDots == InitFixUrlDots /\ [][EvaluateFixUrlDots]_vars

\* the locations the translation is applied to: exact ones in pkg-1.0 and
\* in dep-2.0, one that spans lines, one in a package no workspace holds,
\* and two that are not exact
LocSpanning == [LocBar EXCEPT !.endLine = 9, !.endColumn = 2]

LocGone ==
  ExactLocation([name |-> "gone", version |-> "0.1"], "src/G.hs", <<"G">>, 5, 2, 6)

TranslatedLocations ==
  {LocFooExact, LocTextExact, LocSpanning, LocGone, LocFoo, UnknownLocation}

\* the references the translation is applied to, of the same three packages
TranslatedReferences ==
  { [packageIdString |-> "pkg-1.0",
     idSrcSpan |-> IdentifierSrcSpan("src/M.hs", 10, 5, 8)],
    [packageIdString |-> "dep-2.0",
     idSrcSpan |-> IdentifierSrcSpan("src/Data/Text.hs", 20, 3, 6)],
    [packageIdString |-> "gone-0.1",
     idSrcSpan |-> IdentifierSrcSpan("src/G.hs", 1, 1, 2)] }

\* reference lists of up to MaxReferences references
MaxReferences == 3

ReferenceLists ==
  UNION {[1..n -> TranslatedReferences] : n \in 0..MaxReferences}

\* the extension after activate(), with the packages of the workspace
\* loaded or not yet, and a location and a reference list to translate
InitTranslation ==
  /\ activated = TRUE
  /\ cabalFiles \in Workspaces
  /\ haskellPackages \in {<<>>, PackagesOf(cabalFiles)}
  /\ pendingLoads = IF haskellPackages = <<>> THEN <<cabalFiles>> ELSE <<>>
  /\ haskellModules = EmptyMap
  /\ definitionSites = EmptyMap
  /\ references = EmptyMap
  /\ moduleFetches = EmptyBag
  /\ failedFetches = {}
  /\ calls = EmptyBag
  /\ returned = NoCall
  /\ issued = 0
  /\ evaluated \in {Evaluation("translate", <<l, r>>) :
                      l \in TranslatedLocations, r \in ReferenceLists}

\* haskellLocationtoVscodeLocation applied to the location, and
\* haskellReferencesToVscodeLocations to the reference list
EvaluateTranslation ==
  /\ evaluated.function = "translate"
  /\ evaluated.value = <<>>
  /\ evaluated' = [evaluated EXCEPT
                     !.value = <<haskellLocationtoVscodeLocation(evaluated.args[1]),
                                 haskellReferencesToVscodeLocations(evaluated.args[2])>>]
  /\ UNCHANGED program

SpecTranslation == InitTranslation /\ [][EvaluateTranslation]_vars

\* the locations fetchDefinitionSite is applied to
LocationInfos == {LocFooExact, LocTextExact, LocBar, UnknownLocation, LocFoo, LocDot}

InitDefinitionSite ==
  /\ Started
  /\ evaluated \in {NotEvaluated} \cup
                    {Evaluation("fetchDefinitionSite", <<l, k>>) :
                       l \in LocationInfos, k \in OutcomeKinds}

\* fetchDefinitionSite applied to a location, with the outcome of the fetch
\* it issues, if it issues one
EvaluateFetchDefinitionSite ==
  /\ evaluated.function = "fetchDefinitionSite"
  /\ evaluated.value = <<>>
  /\ LET locationInfo == evaluated.args[1]
         requests == fetchDefinitionSite(locationInfo)
         definitionSite == IF requests = <<>> THEN undefined
                           ELSE fetch(Outcome(requests[1], evaluated.args[2]))
     IN  /\ evaluated' = [evaluated EXCEPT !.value = <<requests, definitionSite>>]
         /\ definitionSites' =
              IF requests = <<>> THEN definitionSites
              ELSE definitionSitesAfterFetch(locationInfo, definitionSite)
  /\ UNCHANGED <<activated, cabalFiles, pendingLoads, haskellPackages,
                 haskellModules, references, moduleFetches, failedFetches,
                 calls, returned, issued>>

\* go-to-definition, or fetchDefinitionSite on its own
NextDefinitionSite ==
  \/ evaluated = NotEvaluated /\ NextDefinition
  \/ EvaluateFetchDefinitionSite

SpecDefinitionSite == InitDefinitionSite /\ [][NextDefinitionSite]_vars

(***************************************************************************)
(* getDefinitionSiteUri applied to two descriptors.  A descriptor spells   *)
(* the strings of an ApproximateLocation character by character.           *)
(***************************************************************************)
DescribedPackages ==
  { [name |-> <<"p">>, version |-> <<"1">>],
    [name |-> <<"p">>, version |-> <<"1", "-", "2">>],
    [name |-> <<"p", "-", "1">>, version |-> <<"2">>] }

DescribedComponents == { <<"c">>, <<"c", "/", "M">> }

DescribedModules == { <<"N">>, <<"M", "/", "N">> }

DescribedNames ==
  { <<"a">>, <<".">>, <<".", ".">>, <<"%", "2", "0", "%", "2", "E">>,
    <<"a", ".">>, <<"a", "%", "2", "E">>, <<"/">> }

Descriptors ==
  [packageId : DescribedPackages, componentId : DescribedComponents,
   moduleName : DescribedModules, entity : {"Typ", "Val", "Mod"},
   name : DescribedNames]

\* the ApproximateLocation the descriptor spells
Described(d) ==
  ApproximateLocation([name |-> Str(d.packageId.name),
                       version |-> Str(d.packageId.version)],
                      Str(d.componentId), d.moduleName, d.entity, d.name)

InitDefinitionSiteUri ==
  /\ Started
  /\ evaluated \in {Evaluation("getDefinitionSiteUri", <<a, b>>) :
                      a \in Descriptors, b \in Descriptors}

\* getDefinitionSiteUri applied to both locations
EvaluateDefinitionSiteUri ==
  /\ evaluated.function = "getDefinitionSiteUri"
  /\ evaluated.value = <<>>
  /\ evaluated' = [evaluated EXCEPT
                     !.value = <<getDefinitionSiteUri(Described(evaluated.args[1])),
                                 getDefinitionSiteUri(Described(evaluated.args[2]))>>]
  /\ UNCHANGED program

SpecDefinitionSiteUri == InitDefinitionSiteUri /\ [][EvaluateDefinitionSiteUri]_vars

(***************************************************************************)
(* Properties.                                                             *)
(***************************************************************************)
Absent(result) == result \in {undefined, null}

\* a go-to-definition call that reached an approximate location
ApproximateCall(c) ==
  /\ c.op = "definition"
  /\ Truthy(c.locationInfo)
  /\ c.locationInfo.value.tag = "ApproximateLocation"

\* C1: a go-to-definition call on an approximate location issues exactly one
\* definition-site request when definitionSites has no entry for its key
\* when it looks, and none when it has one; whatever calls came before,
\* failed or overlapping.
C1_OneRequestColdNoneWarm ==
  /\ \A c \in DOMAIN calls : ApproximateCall(c) =>
       /\ ~c.cacheHit
       /\ c.requests = <<definitionSiteUrl(c.locationInfo.value)>>
  /\ ApproximateCall(returned) =>
       returned.requests =
         IF returned.cacheHit THEN <<>>
         ELSE <<definitionSiteUrl(returned.locationInfo.value)>>

\* a call answered from the cache without a request, while an earlier call
\* for the same key still awaits its response and another one has failed
C1_Witness ==
  /\ ApproximateCall(returned)
  /\ returned.cacheHit
  /\ returned.requests = <<>>
  /\ Truthy(returned.result)
  /\ definitionSiteUrl(returned.locationInfo.value) \in failedFetches
  /\ \E c \in DOMAIN calls : c.locationInfo = returned.locationInfo

\* the definition site known for the key of locationInfo is not exact
KnownNotExact(locationInfo) ==
  LET definitionSiteUri == getDefinitionSiteUri(locationInfo) IN
  /\ Truthy(definitionSiteUri)
  /\ MapHas(definitionSites, definitionSiteUri.value)
  /\ definitionSites[definitionSiteUri.value].location.tag # "ExactLocation"

\* C2: when the definition site fetched or cached for an approximate
\* location is itself not exact, go-to-definition returns nothing, and no
\* call ever issues a request for the nested location: a call in flight has
\* issued the one request for its own location.
C2_NestedLocationNotChased ==
  /\ \A c \in DOMAIN calls : c.op = "definition" =>
       c.requests = <<definitionSiteUrl(c.locationInfo.value)>>
  /\ (ApproximateCall(returned) /\ KnownNotExact(returned.locationInfo.value)) =>
       /\ Absent(returned.result)
       /\ Len(returned.requests) <= 1
       /\ \A i \in 1..Len(returned.requests) :
            returned.requests[i] = definitionSiteUrl(returned.locationInfo.value)

\* the fetch for `.` answered with the approximate location of foo, the call
\* returned nothing, and the definition site of foo was never asked for
C2_Witness ==
  /\ ApproximateCall(returned)
  /\ returned.locationInfo.value = LocDot
  /\ KnownNotExact(LocDot)
  /\ returned.log = "Location is not exact location"
  /\ returned.result = undefined
  /\ ~MapHas(definitionSites, getDefinitionSiteUri(LocFoo).value)
  /\ calls = EmptyBag

\* what the server lists for foo in each package, tagged with the package
ReferencesInPkg ==
  << [packageIdString |-> "pkg-1.0",
      idSrcSpan |-> IdentifierSrcSpan("src/M.hs", 10, 5, 8)],
     [packageIdString |-> "pkg-1.0",
      idSrcSpan |-> IdentifierSrcSpan("src/M.hs", 8, 1, 4)],
     [packageIdString |-> "pkg-1.0",
      idSrcSpan |-> IdentifierSrcSpan("app/Main.hs", 4, 2, 5)] >>

ReferencesInDep ==
  << [packageIdString |-> "dep-2.0",
      idSrcSpan |-> IdentifierSrcSpan("src/Data/Text.hs", 20, 3, 6)] >>

ReferencesIn(packageIdString) ==
  IF packageIdString = "pkg-1.0" THEN ReferencesInPkg ELSE ReferencesInDep

\* a find-references call that returned after its per-package queries
Merged(c) == c.op = "references" /\ c.awaiting = "" /\ c.packages # <<>>

\* C3: discovery lists pkg-1.0 then dep-2.0, the query of pkg-1.0 succeeds
\* and the query of dep-2.0 fails: the cached list and the returned one are
\* the references of pkg-1.0, in the order of the server response.
C3_FailedPackageLeavesTheOther ==
  (Merged(returned) /\ returned.packages = <<"pkg-1.0", "dep-2.0">>
                    /\ returned.failed = {2}) =>
    /\ MapGet(references, returned.externalId) = Some(ReferencesInPkg)
    /\ returned.result =
         Some(<< Location("/ws/pkg/src/M.hs", Range(9, 4, 9, 7)),
                 Location("/ws/pkg/src/M.hs", Range(7, 0, 7, 3)),
                 Location("/ws/pkg/app/Main.hs", Range(3, 1, 3, 4)) >>)

C3_Witness ==
  /\ Merged(returned)
  /\ returned.packages = <<"pkg-1.0", "dep-2.0">>
  /\ returned.failed = {2}
  /\ referencesUrl("dep-2.0", ExtFoo) \in failedFetches
  /\ Len(references[ExtFoo]) = 3

\* the queries of c that have completed
CompletedSet(c) == {c.completed[k] : k \in 1..Len(c.completed)}

\* C4: a per-package query that fails aborts neither the other queries nor
\* the call: the call stays in flight while a query is pending, the failed
\* package contributes the empty list, and the merge happens only when
\* every query has completed or failed, with what the others answered.
C4_FailureAbortsNothing ==
  /\ \A c \in DOMAIN calls : c.awaiting = "references" =>
       /\ \E i \in 1..Len(c.packages) : c.results[i] = pending
       /\ \A i \in 1..Len(c.packages) :
            (c.results[i] = pending) <=> (i \notin CompletedSet(c))
       /\ \A i \in c.failed : c.results[i] = Some(<<>>)
  /\ Merged(returned) =>
       /\ CompletedSet(returned) = 1..Len(returned.packages)
       /\ \A i \in 1..Len(returned.packages) :
            returned.results[i] =
              IF i \in returned.failed THEN Some(<<>>)
              ELSE Some(ReferencesIn(returned.packages[i]))
       /\ MapHas(references, returned.externalId)
       /\ Truthy(returned.result)

\* the first query failed and the call is still in flight for the second
C4_Witness ==
  \E c \in DOMAIN calls :
    /\ c.awaiting = "references"
    /\ c.failed = {1}
    /\ c.completed = <<1>>
    /\ c.results[2] = pending

\* C5: the merged list is the concatenation of the per-package lists in
\* the order of the discovery response, whatever the order in which the
\* queries completed; within a package, in the order of the server response.
C5_MergedInDiscoveryOrder ==
  Merged(returned) =>
    references[returned.externalId] =
      Flatten([i \in 1..Len(returned.packages) |->
                 IF i \in returned.failed THEN <<>>
                 ELSE ReferencesIn(returned.packages[i])])

\* both queries succeeded, the second package first
C5_Witness ==
  /\ Merged(returned)
  /\ returned.completed = <<2, 1>>
  /\ returned.failed = {}
  /\ references[ExtFoo] = ReferencesInPkg \o ReferencesInDep

\* the cursor on foo, the identifier that has an externalId
CursorFoo == Some(Range(9, 4, 9, 7))

\* this step is a find-references call returning because discovery failed
DiscoveryFails ==
  /\ returned = NoCall
  /\ returned'.op = "references"
  /\ returned'.log = "Could not fetch references"

\* this step is a find-references call for foo that finds nothing cached,
\* after a discovery for foo has failed
RetriesReferences ==
  /\ globalReferencesUrl(ExtFoo) \in failedFetches
  /\ MapHas(haskellModules, PathString(DocM.path))
  /\ ~MapHas(references, ExtFoo)
  /\ ProvideReferences(DocM, CursorFoo)

\* C6: when the discovery fetch fails, the call returns having issued the
\* discovery request only, and references is left as it was; so a later
\* find-references call for the same externalId issues the discovery again.
C6_FailedDiscoveryNotCached ==
  [][ /\ DiscoveryFails =>
           /\ references' = references
           /\ returned'.requests = <<globalReferencesUrl(returned'.externalId)>>
           /\ returned'.packages = <<>>
      /\ RetriesReferences =>
           \E c \in DOMAIN calls' :
             /\ c.awaiting = "globalReferences"
             /\ c.requests = <<globalReferencesUrl(ExtFoo)>>
             /\ calls' = BagAdd(calls, c) ]_vars

\* a discovery for foo has failed and nothing is cached; as many calls as
\* can be in flight await a discovery again, so that one of them started
\* after the failure
C6_Witness ==
  /\ globalReferencesUrl(ExtFoo) \in failedFetches
  /\ ~MapHas(references, ExtFoo)
  /\ \E c \in DOMAIN calls :
       /\ c.awaiting = "globalReferences"
       /\ c.externalId = ExtFoo
       /\ calls[c] = MaxInflight

\* C7: once a merged list is cached for an externalId, even an empty or a
\* partial one, a find-references call for it is answered from the cache
\* with no request: no call that found an entry is ever in flight.
C7_CachedReferencesServed ==
  /\ \A c \in DOMAIN calls : c.op = "references" => ~c.cacheHit
  /\ (returned.op = "references" /\ returned.cacheHit) =>
       /\ returned.requests = <<>>
       /\ returned.packages = <<>>
       /\ returned.result =
            Some(haskellReferencesToVscodeLocations(references[returned.externalId]))

\* a call answered from a cached list that is empty: every query had failed
C7_Witness ==
  /\ returned.op = "references"
  /\ returned.cacheHit
  /\ returned.requests = <<>>
  /\ references[ExtFoo] = <<>>
  /\ returned.result = Some(<<>>)

\* the occurrence a cursor is on, by the module cached for the document
OccurrenceAt(path, maybeWordRange) ==
  IF ~Truthy(maybeWordRange) \/ ~MapHas(haskellModules, path) THEN undefined
  ELSE IF IsMultiLine(maybeWordRange.value) THEN undefined
  ELSE MapGet(haskellModules[path].occurrences,
              wordRangeToOccurrenceId(maybeWordRange.value))

\* C8: go-to-definition on an occurrence that is a binder returns nothing,
\* whatever the sort of the occurrence.
C8_BinderNeverResolved ==
  returned.op = "definition" =>
    LET occurrence == OccurrenceAt(returned.document, returned.wordRange) IN
    (Truthy(occurrence) /\ occurrence.value.isBinder) => Absent(returned.result)

\* the path and the module fetch of M.hs
PathM == PathString(DocM.path)

FetchM ==
  [path |-> PathM,
   url |-> haskellModuleUrl([packageId |-> PkgId, packageFolder |-> <<"ws", "pkg">>],
                            DocM)]

\* this step is the failed response of a module fetch
ModuleFetchFails ==
  \E r \in DOMAIN moduleFetches, k \in OutcomeKinds :
    /\ ~Truthy(fetch(Outcome(r.url, k)))
    /\ ModuleResponse(r, k)

\* this step opens M.hs, or resolves a word in it, after its module fetch
\* has failed and with no module cached for it
RetriesModule ==
  /\ FetchM.url \in failedFetches
  /\ ~MapHas(haskellModules, PathM)
  /\ Truthy(lookupPackageInfo(haskellPackages, DocM))
  /\ \/ OpenTextDocument(DocM)
     \/ \E c \in SessionCursors :
          /\ c[1] = DocM
          /\ Truthy(c[2])
          /\ \/ ProvideHover(c[1], c[2])
             \/ ProvideDefinition(c[1], c[2])
             \/ ProvideReferences(c[1], c[2])

\* C9: a module fetch that fails leaves haskellModules as it was, so an
\* open event or a resolution for the same file that comes later issues
\* the module fetch again.
C9_FailedModuleNotCached ==
  [][ /\ ModuleFetchFails => haskellModules' = haskellModules
      /\ RetriesModule => moduleFetches' = BagAdd(moduleFetches, FetchM) ]_vars

\* the fetch of M.hs has failed, nothing is cached for it, and as many
\* fetches as can be in flight are in flight for it again, so that one of
\* them started after the failure
C9_Witness ==
  /\ FetchM.url \in failedFetches
  /\ ~MapHas(haskellModules, PathM)
  /\ FetchM \in DOMAIN moduleFetches
  /\ moduleFetches[FetchM] = MaxModuleFetches

\* C10: no step removes an entry from haskellModules, definitionSites or
\* references.
C10_CachesNeverShrink ==
  [][ /\ DOMAIN haskellModules \subseteq DOMAIN haskellModules'
      /\ DOMAIN definitionSites \subseteq DOMAIN definitionSites'
      /\ DOMAIN references \subseteq DOMAIN references' ]_vars

\* every cache holds entries, definitionSites for two keys, after the
\* workspace folders changed and the packages were loaded again
C10_Witness ==
  /\ MapHas(haskellModules, PathM)
  /\ MapHas(definitionSites, getDefinitionSiteUri(LocFoo).value)
  /\ MapHas(definitionSites, getDefinitionSiteUri(LocDot).value)
  /\ MapHas(references, ExtFoo)
  /\ cabalFiles = WorkspaceLarge
  /\ haskellPackages = PackagesOf(WorkspaceLarge)

\* the words of M.hs that are occurrences of an identifier of the module:
\* the occurrence and the identifier the server holds for each
IdentifiedWords ==
  { [wordRange |-> Range(9, 4, 9, 7),
     occurrence |-> ModuleM.occurrences["10-5-8"], identifier |-> ModuleM.identifiers.x1],
    [wordRange |-> Range(11, 0, 11, 1),
     occurrence |-> ModuleM.occurrences["12-1-2"], identifier |-> ModuleM.identifiers.x2],
    [wordRange |-> Range(6, 0, 6, 3),
     occurrence |-> ModuleM.occurrences["7-1-4"], identifier |-> ModuleM.identifiers.x3],
    [wordRange |-> Range(7, 0, 7, 3),
     occurrence |-> ModuleM.occurrences["8-1-4"], identifier |-> ModuleM.identifiers.x3],
    [wordRange |-> Range(8, 0, 8, 1),
     occurrence |-> ModuleM.occurrences["9-1-2"], identifier |-> ModuleM.identifiers.x4] }

\* this step is a hover call returning
HoverReturns == returned = NoCall /\ returned'.op = "hover"

\* C11: with the module of the file cached, a hover on a word that is an
\* occurrence of an identifier shows that identifier, the same on every
\* call, and the call starts no fetch.
C11_ResolutionFromCachedModule ==
  [][ (HoverReturns /\ MapHas(haskellModules, returned'.document)) =>
        /\ moduleFetches' = moduleFetches
        /\ calls' = calls
        /\ \A w \in IdentifiedWords :
             returned'.wordRange = Some(w.wordRange) =>
               returned'.result =
                 Some([contents |-> HoverContents(w.identifier, w.occurrence),
                       range |-> w.wordRange]) ]_vars

\* a hover on foo answered from the cached module, with nothing in flight
C11_Witness ==
  /\ returned.op = "hover"
  /\ returned.wordRange = CursorFoo
  /\ MapHas(haskellModules, returned.document)
  /\ returned.result =
       Some([contents |-> HoverContents(ModuleM.identifiers.x1,
                                        ModuleM.occurrences["10-5-8"]),
             range |-> Range(9, 4, 9, 7)])
  /\ moduleFetches = EmptyBag

\* C12: wordRangeToOccurrenceId gives two word ranges the same id exactly
\* when they have the same line, start column and end column.
C12_OccurrenceIdInjective ==
  (evaluated.function = "wordRangeToOccurrenceId" /\ evaluated.value # <<>>) =>
    ((evaluated.value[1] = evaluated.value[2])
       <=> (evaluated.args[1] = evaluated.args[2]))

\* two ranges whose coordinates hold the same digits in the same order
C12_Witness ==
  /\ evaluated.function = "wordRangeToOccurrenceId"
  /\ evaluated.args = <<Range(0, 11, 0, 1), Range(10, 1, 10, 1)>>
  /\ evaluated.value = <<"1-12-2", "11-2-2">>

\* this step is a go-to-definition call returning for a location of this tag
DefinitionReturnsFor(tag) ==
  /\ returned = NoCall
  /\ returned'.op = "definition"
  /\ Truthy(returned'.locationInfo)
  /\ returned'.locationInfo.value.tag = tag

\* this step starts no fetch and writes no cache
NothingFetchedOrCached ==
  /\ calls' = calls
  /\ moduleFetches' = moduleFetches
  /\ haskellModules' = haskellModules
  /\ definitionSites' = definitionSites
  /\ references' = references

\* C13: go-to-definition on an exact location issues no request and leaves
\* the caches as they were; it returns the location translated through the
\* registry, which here holds pkg-1.0 and not dep-2.0.
C13_ExactLocationResolvedLocally ==
  [][ DefinitionReturnsFor("ExactLocation") =>
        /\ returned'.requests = <<>>
        /\ NothingFetchedOrCached
        /\ returned'.locationInfo.value = LocBar =>
             returned'.result = Some(Location("/ws/pkg/src/M.hs", Range(6, 0, 6, 3)))
        /\ returned'.locationInfo.value = LocFooExact =>
             returned'.result = Some(Location("/ws/pkg/src/M.hs", Range(2, 0, 2, 3)))
        /\ returned'.locationInfo.value = LocTextExact =>
             returned'.result = null ]_vars

\* the definition of bar, returned with no request made
C13_Witness ==
  /\ returned.op = "definition"
  /\ returned.wordRange = Some(Range(7, 0, 7, 3))
  /\ returned.locationInfo = Some(LocBar)
  /\ returned.result = Some(Location("/ws/pkg/src/M.hs", Range(6, 0, 6, 3)))
  /\ returned.requests = <<>>
  /\ calls = EmptyBag
  /\ definitionSites = EmptyMap

\* C14: go-to-definition on an unknown location returns nothing and issues
\* no request; and fetchDefinitionSite applied to a location that is not
\* approximate issues no request, yields nothing and leaves definitionSites
\* as it was.
C14_OnlyApproximateFetched ==
  [][ /\ DefinitionReturnsFor("UnknownLocation") =>
           /\ Absent(returned'.result)
           /\ returned'.requests = <<>>
           /\ NothingFetchedOrCached
      /\ (EvaluateFetchDefinitionSite
            /\ evaluated.args[1].tag # "ApproximateLocation") =>
           /\ evaluated'.value = << <<>>, undefined >>
           /\ definitionSites' = definitionSites ]_vars

\* go-to-definition on T, whose location is unknown: nothing returned,
\* nothing requested
C14_Witness ==
  /\ returned.op = "definition"
  /\ returned.wordRange = Some(Range(8, 0, 8, 1))
  /\ returned.locationInfo = Some(UnknownLocation)
  /\ returned.result = undefined
  /\ returned.log = "Could not get URI for location info"
  /\ returned.requests = <<>>
  /\ calls = EmptyBag

\* a name with each of its dots replaced by the escape %2E
RECURSIVE EscapedDots(_)
EscapedDots(name) ==
  IF name = <<>> THEN ""
  ELSE (IF Head(name) = "." THEN "%2E" ELSE Head(name)) \o EscapedDots(Tail(name))

\* C15: fixUrlDots gives the name "." and the name ".." a token each, the
\* two tokens distinct; it gives any other name the name with every dot
\* escaped; and it gives the same name the same string.
C15_DotsEscaped ==
  (evaluated.function = "fixUrlDots" /\ evaluated.value # <<>>) =>
    /\ \A i \in 1..2 :
         evaluated.value[i] =
           IF evaluated.args[i] = <<".">> THEN "%20%2E"
           ELSE IF evaluated.args[i] = <<".", ".">> THEN "%20%2E%2E"
           ELSE EscapedDots(evaluated.args[i])
    /\ evaluated.args[1] = evaluated.args[2] => evaluated.value[1] = evaluated.value[2]
    /\ evaluated.args = << <<".">>, <<".", ".">> >> =>
         evaluated.value[1] # evaluated.value[2]

\* a name with two dots next to the name ".."
C15_Witness ==
  /\ evaluated.function = "fixUrlDots"
  /\ evaluated.args = << <<"a", ".", ".">>, <<".", ".">> >>
  /\ evaluated.value = <<"a%2E%2E", "%20%2E%2E">>

\* the identity strings of the packages in the registry
KnownPackages ==
  {haskellPackages[i].packageId.name \o "-" \o haskellPackages[i].packageId.version :
     i \in 1..Len(haskellPackages)}

\* the folders of the workspaces, by package
FolderOf(packageIdString) ==
  IF packageIdString = "pkg-1.0" THEN "/ws/pkg" ELSE "/ws/dep"

\* the editor location of a reference of a known package
LocationOfReference(reference) ==
  Location(FolderOf(reference.packageIdString) \o "/" \o reference.idSrcSpan.modulePath,
           Range(reference.idSrcSpan.line - 1, reference.idSrcSpan.startColumn - 1,
                 reference.idSrcSpan.line - 1, reference.idSrcSpan.endColumn - 1))

IsKnownReference(reference) == reference.packageIdString \in KnownPackages

Translated == evaluated.function = "translate" /\ evaluated.value # <<>>

\* C16: a location of a package that is not in the registry translates to
\* nothing, and so does each reference of such a package: of a reference
\* list exactly the references of the packages in the registry are kept, in
\* their order.
C16_UnknownPackageNotTranslated ==
  Translated =>
    LET locationInfo == evaluated.args[1]
        kept == SelectSeq(evaluated.args[2], IsKnownReference)
    IN  /\ (locationInfo.tag = "ExactLocation"
              /\ packageIdToString(locationInfo.packageId) \notin KnownPackages) =>
             evaluated.value[1] = null
        /\ evaluated.value[2] = [i \in 1..Len(kept) |-> LocationOfReference(kept[i])]

\* with pkg-1.0 alone in the registry, the location in dep-2.0 is not
\* translated and of three references the two of pkg-1.0 are kept
C16_Witness ==
  /\ Translated
  /\ KnownPackages = {"pkg-1.0"}
  /\ evaluated.args[1] = LocTextExact
  /\ evaluated.value[1] = null
  /\ Len(evaluated.args[2]) = 3
  /\ evaluated.args[2][1].packageIdString = "pkg-1.0"
  /\ evaluated.args[2][2].packageIdString = "dep-2.0"
  /\ evaluated.args[2][3].packageIdString = "pkg-1.0"
  /\ Len(evaluated.value[2]) = 2

\* C17: an exact location of a package in the registry translates to the
\* file packageFolder/modulePath, with each of its four coordinates less by
\* one: startLine 3 of src/M.hs in pkg-1.0 is line 2 of /ws/pkg/src/M.hs.
\* A reference of such a package translates to its file in the same way,
\* on the one line line-1.
C17_CoordinatesZeroBased ==
  Translated =>
    LET locationInfo == evaluated.args[1]
        refs == evaluated.args[2]
    IN  /\ (locationInfo.tag = "ExactLocation"
              /\ packageIdToString(locationInfo.packageId) \in KnownPackages) =>
             evaluated.value[1] =
               Some(Location(FolderOf(packageIdToString(locationInfo.packageId))
                               \o "/" \o locationInfo.modulePath,
                             Range(locationInfo.startLine - 1,
                                   locationInfo.startColumn - 1,
                                   locationInfo.endLine - 1,
                                   locationInfo.endColumn - 1)))
        /\ (locationInfo = LocFooExact /\ "pkg-1.0" \in KnownPackages) =>
             evaluated.value[1] = Some(Location("/ws/pkg/src/M.hs", Range(2, 0, 2, 3)))
        /\ (\A i \in 1..Len(refs) : IsKnownReference(refs[i])) =>
             /\ Len(evaluated.value[2]) = Len(refs)
             /\ \A i \in 1..Len(refs) :
                  /\ evaluated.value[2][i] = LocationOfReference(refs[i])
                  /\ refs[i].packageIdString = "dep-2.0" =>
                       evaluated.value[2][i] =
                         Location("/ws/dep/src/Data/Text.hs", Range(19, 2, 19, 5))

\* the location that spans lines 7 to 9 and a reference in dep-2.0, with
\* both packages in the registry
C17_Witness ==
  /\ Translated
  /\ KnownPackages = {"pkg-1.0", "dep-2.0"}
  /\ evaluated.args[1] = LocSpanning
  /\ evaluated.value[1] = Some(Location("/ws/pkg/src/M.hs", Range(6, 0, 8, 1)))
  /\ Len(evaluated.args[2]) = 1
  /\ evaluated.value[2] =
       << Location("/ws/dep/src/Data/Text.hs", Range(19, 2, 19, 5)) >>

\* what the providers log on a soft miss
SoftMisses ==
  {"Could not get word range", "Identifier spans multiple lines",
   "Module info not available", "No info for module", "No module info",
   "Could not find occurence", "No internalId", "Could not find identifier",
   "Occurence is binder", "No externalId"}

\* what the providers log when a fetch gave nothing
FetchMisses == {"Could not fetch definition site", "Could not fetch references"}

\* C18: hover, go-to-definition and find-references end with a result or
\* with nothing, never with an exception: whatever the outcome of a fetch
\* (served, connection refused, 404, another error, empty body) and on
\* every soft miss; a soft miss and a failed fetch end with nothing, and a
\* call in flight is one that awaits a fetch.
C18_NoUnhandledFault ==
  /\ returned.result.tag \in {"undefined", "null", "some"}
  /\ returned.log \in SoftMisses \cup FetchMisses => returned.result = undefined
  /\ returned.log \in SoftMisses => returned.requests = <<>>
  /\ \A c \in DOMAIN calls :
       /\ c.result = undefined
       /\ c.awaiting \in {"definitionSite", "globalReferences", "references"}
       /\ c.requests # <<>>

\* find-references returned nothing after its discovery failed, and
\* fetches have failed for the module, for a definition site and for
\* the references
C18_Witness ==
  /\ returned.op = "references"
  /\ returned.log = "Could not fetch references"
  /\ returned.result = undefined
  /\ globalReferencesUrl(ExtFoo) \in failedFetches
  /\ definitionSiteUrl(LocFoo) \in failedFetches
  /\ FetchM.url \in failedFetches

\* a provider call returns without awaiting anything
ProviderReturns == returned = NoCall /\ returned' # NoCall /\ calls' = calls

\* the call ended because the module of its document is not cached
NoModuleMiss(call) ==
  \/ call.op = "hover" /\ call.log = "Module info not available"
  \/ call.op = "definition" /\ call.log = "No info for module"
  \/ call.op = "references" /\ call.log = "No module info"

\* the call ended in a soft miss of the position resolution
PositionMiss(call) ==
  \/ NoModuleMiss(call)
  \/ call.log \in {"Could not get word range", "Could not find occurence",
                   "No internalId", "Could not find identifier"}

\* the step starts one module fetch, for the document of the call
StartsModuleFetch ==
  \E r \in DOMAIN moduleFetches' :
    /\ r.path = returned'.document
    /\ moduleFetches' = BagAdd(moduleFetches, r)

\* the document of the call lies in a package of the registry
InRegisteredPackage(call) ==
  \E d \in Documents :
    /\ PathString(d.path) = call.document
    /\ Truthy(lookupPackageInfo(haskellPackages, d))

\* C19 as stated: every position-resolution soft miss (no word range, no
\* module, no occurrence, no internalId, no identifier) of a provider call
\* starts a module fetch for the document.
C19_EveryMissPrefetches ==
  [][ (ProviderReturns /\ PositionMiss(returned')) => StartsModuleFetch ]_vars

\* C19, amended: a provider call starts a module fetch for its document
\* exactly when it ends in the no-module miss and the document lies in a
\* package of the registry; every other call that returns at once, the
\* other position-resolution misses among them, starts none.
C19_ModuleMissPrefetches ==
  [][ ProviderReturns =>
        IF NoModuleMiss(returned') /\ InRegisteredPackage(returned')
        THEN StartsModuleFetch
        ELSE moduleFetches' = moduleFetches ]_vars

\* a go-to-definition missed the module of M.hs, which is not cached, and
\* started the second fetch for it
C19_Witness ==
  /\ returned.op = "definition"
  /\ NoModuleMiss(returned)
  /\ returned.document = PathM
  /\ returned.prefetch
  /\ ~MapHas(haskellModules, PathM)
  /\ FetchM \in DOMAIN moduleFetches /\ moduleFetches[FetchM] = 2

(***************************************************************************)
(* Overlapping calls under fair responses.                                 *)
(***************************************************************************)
\* go-to-definition on foo as it awaits its definition site
DefinitionCallFoo ==
  [NoCall EXCEPT !.op = "definition", !.document = PathM, !.wordRange = CursorFoo,
                 !.requests = <<definitionSiteUrl(LocFoo)>>,
                 !.locationInfo = Some(LocFoo), !.awaiting = "definitionSite"]

\* find-references on foo as it awaits the discovery
ReferencesCallFoo ==
  [NoCall EXCEPT !.op = "references", !.document = PathM, !.wordRange = CursorFoo,
                 !.requests = <<globalReferencesUrl(ExtFoo)>>,
                 !.externalId = ExtFoo, !.awaiting = "globalReferences"]

\* find-references on foo with its per-package queries started
FannedOutCallFoo == StartFanOut(ReferencesCallFoo, GlobalReferencesFoo)

\* find-references on foo with one of its two queries settled
SettledOnceCallsFoo ==
  {LET sourceFiles ==
         fetch(Outcome(referencesUrl(FannedOutCallFoo.packages[i], ExtFoo), k))
   IN  Completed(SettleReferences(FannedOutCallFoo, i, sourceFiles), i, sourceFiles) :
     i \in 1..Len(GlobalReferencesFoo), k \in OutcomeKinds}

\* every call on foo that awaits a fetch
AwaitingCalls ==
  {DefinitionCallFoo, ReferencesCallFoo, FannedOutCallFoo} \cup SettledOnceCallsFoo

\* a response to a fetch of the call arrives
ResponseOf(call, kind) ==
  \/ DefinitionSiteResponse(call, kind)
  \/ GlobalReferencesResponse(call, kind)
  \/ \E i \in 1..Len(GlobalReferencesFoo) : ReferencesResponse(call, i, kind)

\* a fetch of the call fails, or it completes with a body
FetchFails(call) ==
  \E k \in {"refused", "notFound", "serverError"} : ResponseOf(call, k)

FetchCompletes(call) == \E k \in {"served", "emptyBody"} : ResponseOf(call, k)

\* every issued fetch eventually completes or fails, and the host takes
\* every result
FairResponses ==
  /\ WF_vars(Collect)
  /\ WF_vars(Collected /\ \E call \in DOMAIN calls :
                             FetchFails(call) \/ FetchCompletes(call))

SpecOverlapFair == Init /\ [][NextOverlap]_vars /\ FairResponses

\* the fetches of the call that have not completed yet
PendingFetches(call) ==
  IF call.awaiting = "references"
  THEN {i \in 1..Len(call.results) : call.results[i] = pending}
  ELSE IF call.awaiting \in {"definitionSite", "globalReferences"} THEN {0}
  ELSE {}

\* the same request: provider, document and word
SameRequest(a, b) ==
  a.op = b.op /\ a.document = b.document /\ a.wordRange = b.wordRange

CountOf(bag, e) == IF e \in DOMAIN bag THEN bag[e] ELSE 0

\* the step takes one copy of the call out of the calls in flight
Leaves(call) == CountOf(calls', call) < CountOf(calls, call)

\* the step is the return of the call: its fetches are done
ReturnOf(call) ==
  /\ calls' = BagRemove(calls, call)
  /\ returned = NoCall
  /\ SameRequest(returned', call)
  /\ returned'.awaiting = ""

\* the step is the completion of one fetch of the call that leaves it
\* with fetches pending: the discovery starts the per-package queries, a
\* per-package query leaves the others
AdvanceOf(call) ==
  \E next \in DOMAIN calls' :
    /\ SameRequest(next, call)
    /\ calls' = BagAdd(BagRemove(calls, call), next)
    /\ PendingFetches(next) # {}
    /\ IF call.awaiting = "globalReferences"
       THEN /\ next.awaiting = "references"
            /\ PendingFetches(next) = 1..Len(next.results)
       ELSE /\ next.awaiting = call.awaiting
            /\ PendingFetches(next) \subseteq PendingFetches(call)
            /\ PendingFetches(next) # PendingFetches(call)
    /\ returned' = returned

\* C20: there is no cancellation. A call leaves the calls in flight only by
\* the completion or failure of one of its own fetches: it returns with
\* that step if it was its last fetch, and stays in flight with its
\* remaining fetches pending otherwise; a newer call for the same key, or any other
\* step, takes no call and no module fetch out of flight. Every call in
\* flight has a fetch pending. If every issued fetch eventually completes
\* or fails, every call in flight eventually returns: whenever calls are
\* in flight, there comes a state where none is, and a call leaves only
\* by returning.
C20_NoCancellationAllReturn ==
  /\ [](/\ DOMAIN calls \subseteq AwaitingCalls
        /\ \A c \in DOMAIN calls : PendingFetches(c) # {})
  /\ [][ /\ \A c \in DOMAIN calls :
              Leaves(c) =>
                CASE c.awaiting = "definitionSite" -> ReturnOf(c)
                  [] c.awaiting = "globalReferences" -> ReturnOf(c) \/ AdvanceOf(c)
                  [] c.awaiting = "references" ->
                       IF Cardinality(PendingFetches(c)) = 1 THEN ReturnOf(c)
                       ELSE AdvanceOf(c)
         /\ \A r \in DOMAIN moduleFetches :
              CountOf(moduleFetches', r) < CountOf(moduleFetches, r) =>
                /\ moduleFetches' = BagRemove(moduleFetches, r)
                /\ calls' = calls ]_vars
  /\ (calls # EmptyBag) ~> (calls = EmptyBag)

\* two go-to-definition calls on foo overlapped, both for the definition
\* site that was not cached: one has returned its location and the other
\* is still in flight
C20_Witness ==
  /\ returned.op = "definition"
  /\ returned.requests = <<definitionSiteUrl(LocFoo)>>
  /\ Truthy(returned.result)
  /\ ~returned.cacheHit
  /\ CountOf(calls, DefinitionCallFoo) = 1

(***************************************************************************)
(* Ownership of the shared state.                                          *)
(***************************************************************************)
\* the two maps agree on every key but k
SameBut(m, n, k) ==
  /\ DOMAIN m \ {k} = DOMAIN n \ {k}
  /\ \A x \in DOMAIN m \ {k} : m[x] = n[x]

\* the step is the completion of a module fetch, writing its file's entry
ModuleFetchWrites ==
  \E r \in DOMAIN moduleFetches :
    /\ moduleFetches' = BagRemove(moduleFetches, r)
    /\ SameBut(haskellModules, haskellModules', r.path)

\* the step is the completion of a definition-site fetch, writing its key
DefinitionSiteFetchWrites ==
  \E c \in DOMAIN calls :
    /\ c.op = "definition" /\ c.awaiting = "definitionSite"
    /\ Leaves(c)
    /\ SameBut(definitionSites, definitionSites',
               getDefinitionSiteUri(c.locationInfo.value).value)

\* the step is the completion of fetchAllReferences, writing its externalId
FetchAllReferencesWrites ==
  \E c \in DOMAIN calls :
    /\ c.op = "references" /\ c.awaiting \in {"globalReferences", "references"}
    /\ Leaves(c)
    /\ SameBut(references, references', c.externalId)

\* the step is the completion of a manifest discovery
LoadPackagesInfoWrites ==
  /\ Len(pendingLoads') = Len(pendingLoads) - 1
  /\ \E i \in 1..Len(pendingLoads) : haskellPackages' = PackagesOf(pendingLoads[i])

\* the synchronous part of a provider call: it returns at once or it is
\* put in flight
ProviderStep ==
  \/ ProviderReturns
  \/ BagSize(calls') = BagSize(calls) + 1

\* C21: each piece of shared state is written only by its owner:
\* haskellModules by the completion of a module fetch, definitionSites by
\* the completion of a definition-site fetch, references by the completion
\* of fetchAllReferences, haskellPackages by the completion of
\* loadPackagesInfo; the step that writes one piece leaves the other three,
\* and the synchronous part of hover, go-to-definition and find-references
\* writes none.
C21_WrittenOnlyByOwner ==
  [][ /\ haskellModules' # haskellModules =>
           /\ ModuleFetchWrites
           /\ UNCHANGED <<definitionSites, references, haskellPackages>>
      /\ definitionSites' # definitionSites =>
           /\ DefinitionSiteFetchWrites
           /\ UNCHANGED <<haskellModules, references, haskellPackages>>
      /\ references' # references =>
           /\ FetchAllReferencesWrites
           /\ UNCHANGED <<haskellModules, definitionSites, haskellPackages>>
      /\ haskellPackages' # haskellPackages =>
           /\ LoadPackagesInfoWrites
           /\ UNCHANGED <<haskellModules, definitionSites, references>>
      /\ ProviderStep =>
           UNCHANGED <<haskellModules, definitionSites, references,
                       haskellPackages>> ]_vars

\* a hover has answered while the registry and the three caches all hold
\* entries
C21_Witness ==
  /\ returned.op = "hover"
  /\ Truthy(returned.result)
  /\ haskellModules # EmptyMap
  /\ haskellPackages # <<>>
  /\ definitionSites # EmptyMap
  /\ references # EmptyMap

\* the Haskell files of a workspace package with a valid manifest
FilesInValidPackage ==
  {d \in Documents : isHaskellFile(d) /\ Truthy(lookupPackageInfo(PackagesOf(cabalFiles), d))}

ModuleFetchSucceeds(r) ==
  \E k \in OutcomeKinds :
    /\ Truthy(fetch(Outcome(r.url, k)))
    /\ ModuleResponse(r, k)

\* C23: a resolution call that misses because the module of its file is
\* not cached returns absent at once, without waiting for the module fetch
\* it starts; a module fetch that completes successfully caches the module
\* of its file, the entry stays, and every resolution call for a file whose
\* module is cached starts no module fetch and does not end in the
\* no-module miss; a call is put in flight only with its module cached.
C23_ModuleCachedAfterFirstMiss ==
  [][ /\ (returned' # returned /\ NoModuleMiss(returned')) =>
           /\ ProviderReturns
           /\ returned'.result = undefined
           /\ ~MapHas(haskellModules', returned'.document)
      /\ \A r \in DOMAIN moduleFetches :
           (CountOf(moduleFetches', r) < CountOf(moduleFetches, r)
              /\ ModuleFetchSucceeds(r)) => MapHas(haskellModules', r.path)
      /\ \A p \in DOMAIN haskellModules :
           /\ p \in DOMAIN haskellModules'
           /\ haskellModules'[p] = haskellModules[p]
      /\ (ProviderReturns /\ MapHas(haskellModules, returned'.document)) =>
           /\ moduleFetches' = moduleFetches
           /\ ~NoModuleMiss(returned')
      /\ \A c \in DOMAIN calls' :
           CountOf(calls', c) > CountOf(calls, c) =>
             /\ MapHas(haskellModules, c.document)
             /\ moduleFetches' = moduleFetches ]_vars

\* find-references on foo is answered with the module of M.hs cached by a
\* fetch that did not fail, and no module fetch is in flight
C23_Witness ==
  /\ returned.op = "references"
  /\ returned.wordRange = CursorFoo
  /\ Truthy(returned.result)
  /\ MapHas(haskellModules, PathM)
  /\ FetchM.url \notin failedFetches
  /\ moduleFetches = EmptyBag

\* getDefinitionSiteUri has been applied to two descriptors
UrisEvaluated ==
  evaluated.function = "getDefinitionSiteUri" /\ evaluated.value # <<>>

Contains(chars, c) == \E i \in 1..Len(chars) : chars[i] = c

\* no "/" in the package name, the version, the component and the module,
\* no "-" in the version, no "%" in the name
Unambiguous(d) ==
  /\ ~Contains(d.packageId.name, "/")
  /\ ~Contains(d.packageId.version, "/")
  /\ ~Contains(d.packageId.version, "-")
  /\ ~Contains(d.componentId, "/")
  /\ ~Contains(d.moduleName, "/")
  /\ ~Contains(d.name, "%")

\* C24 as stated: two ApproximateLocations of an entity other than Mod
\* that differ in packageId, componentId, moduleName, entity or name never
\* get the same definition-site key.
C24_KeyCollisionFree ==
  UrisEvaluated =>
    LET a == evaluated.args[1]
        b == evaluated.args[2]
    IN  (a.entity # "Mod" /\ b.entity # "Mod" /\ a # b) =>
          evaluated.value[1] # evaluated.value[2]

\* C24, amended: the key is collision-free for entities other than Mod
\* among the locations whose package name, version, componentId and
\* moduleName contain no "/", whose version contains no "-" and whose name
\* contains no "%": two of them that differ never get the same key.
C24_KeyCollisionFreeUnambiguous ==
  UrisEvaluated =>
    LET a == evaluated.args[1]
        b == evaluated.args[2]
    IN  (a.entity # "Mod" /\ b.entity # "Mod" /\ a # b
           /\ Unambiguous(a) /\ Unambiguous(b)) =>
          evaluated.value[1] # evaluated.value[2]

\* the keys of the operator . as a value and of a.  as a type, in
\* p-1/c/N, have been computed and differ
C24_Witness ==
  /\ UrisEvaluated
  /\ evaluated.args[1] =
       [packageId |-> [name |-> <<"p">>, version |-> <<"1">>],
        componentId |-> <<"c">>, moduleName |-> <<"N">>, entity |-> "Val",
        name |-> <<".">>]
  /\ evaluated.args[2] =
       [packageId |-> [name |-> <<"p">>, version |-> <<"1">>],
        componentId |-> <<"c">>, moduleName |-> <<"N">>, entity |-> "Typ",
        name |-> <<"a", ".">>]
  /\ evaluated.value = <<Some("p-1/c/N/Val/%20%2E"), Some("p-1/c/N/Typ/a%2E")>>

\* ---------------------------------------------------------------------
\* C25: once every discovery (loadPackagesInfo at activation and on each
\* workspace-folder change) has completed, the package registry is the
\* result of the most recently triggered one, whatever the order in which
\* the overlapping discoveries completed.  cabalFiles is the manifest set
\* the most recently triggered discovery looks at.
C25_LatestDiscoveryWins ==
  (activated /\ pendingLoads = <<>>) => haskellPackages = PackagesOf(cabalFiles)

\* ---------------------------------------------------------------------
\* C26: a definition site whose location is not exact is stored in
\* definitionSites like any other successful response and stays there
\* unchanged; from then on no go-to-definition for its key issues a
\* request: the call returns nothing at once, from the cache.
C26_NonExactSiteCachedNeverRetried ==
  [][ /\ (returned' # returned
            /\ returned'.log = "Location is not exact location") =>
           LET definitionSiteUri == getDefinitionSiteUri(returned'.locationInfo.value)
           IN  /\ MapHas(definitionSites', definitionSiteUri.value)
               /\ definitionSites'[definitionSiteUri.value].location.tag
                    # "ExactLocation"
      /\ \A k \in DOMAIN definitionSites :
           definitionSites[k].location.tag # "ExactLocation" =>
             /\ k \in DOMAIN definitionSites'
             /\ definitionSites'[k] = definitionSites[k]
      /\ \A c \in DOMAIN calls' :
           (CountOf(calls', c) > CountOf(calls, c) /\ ApproximateCall(c)) =>
             ~KnownNotExact(c.locationInfo.value)
      /\ (ProviderReturns /\ ApproximateCall(returned')
            /\ KnownNotExact(returned'.locationInfo.value)) =>
           /\ returned'.result = undefined
           /\ returned'.log = "Cached item is not exact location"
           /\ returned'.requests = <<>>
           /\ NothingFetchedOrCached
           /\ failedFetches' = failedFetches ]_vars

\* the definition site of `.` is cached with an approximate location, and
\* a later go-to-definition on `.` returned nothing without a request
C26_Witness ==
  /\ ApproximateCall(returned)
  /\ returned.locationInfo.value = LocDot
  /\ KnownNotExact(LocDot)
  /\ returned.log = "Cached item is not exact location"
  /\ returned.result = undefined
  /\ returned.requests = <<>>
  /\ calls = EmptyBag

\* ---------------------------------------------------------------------
\* the registry holds the package dep-2.0
DepRegistered(packages) ==
  \E i \in 1..Len(packages) : packages[i].packageId = DepId

\* the places of the references to foo in pkg-1.0 and in dep-2.0
PlacesInPkg ==
  << Location("/ws/pkg/src/M.hs", Range(9, 4, 9, 7)),
     Location("/ws/pkg/src/M.hs", Range(7, 0, 7, 3)),
     Location("/ws/pkg/app/Main.hs", Range(3, 1, 3, 4)) >>

PlacesInDep ==
  << Location("/ws/dep/src/Data/Text.hs", Range(19, 2, 19, 5)) >>

\* C27: the references cache holds the references as the server gave them,
\* tagged with their package and whether or not the registry knows it; a
\* change of the registry leaves the cache alone and issues no request;
\* and a find-references call answered from the cache, with no request,
\* returns the places of the packages the registry holds at that call:
\* those of dep-2.0 once the registry has learned it, and no longer once
\* the registry has lost it.
C27_TranslatedAtEachCall ==
  [][ /\ (returned' # returned /\ Merged(returned')
            /\ returned'.packages = <<"pkg-1.0", "dep-2.0">>
            /\ returned'.failed = {}) =>
           /\ references'[returned'.externalId] = ReferencesInPkg \o ReferencesInDep
           /\ returned'.result =
                Some(IF DepRegistered(haskellPackages)
                     THEN PlacesInPkg \o PlacesInDep ELSE PlacesInPkg)
      /\ haskellPackages' # haskellPackages =>
           /\ references' = references
           /\ calls' = calls
           /\ moduleFetches' = moduleFetches
      /\ (ProviderReturns /\ returned'.op = "references" /\ returned'.cacheHit
            /\ references[returned'.externalId] = ReferencesInPkg \o ReferencesInDep) =>
           /\ returned'.requests = <<>>
           /\ NothingFetchedOrCached
           /\ failedFetches' = failedFetches
           /\ returned'.result =
                Some(IF DepRegistered(haskellPackages)
                     THEN PlacesInPkg \o PlacesInDep ELSE PlacesInPkg) ]_vars

\* the registry holds dep-2.0 although the workspace has lost it since, so
\* that it has changed during the session, and the call answered from the
\* cache returns the place in dep-2.0 with those in pkg-1.0
C27_Witness ==
  /\ returned.op = "references"
  /\ returned.cacheHit
  /\ returned.requests = <<>>
  /\ references[ExtFoo] = ReferencesInPkg \o ReferencesInDep
  /\ DepRegistered(haskellPackages)
  /\ cabalFiles = WorkspaceSmall
  /\ returned.result = Some(PlacesInPkg \o PlacesInDep)

====
